---------------------------- MODULE Spec2Model ----------------------------
(***************************************************************************)
(* Verification model of the sharpeye.ai backend: the runtime feature      *)
(* service, the offline rolling-feature builders, the Monte Carlo engine,  *)
(* the recommendation gate and the cron jobs.                              *)
(*                                                                         *)
(* Each subsystem has its own variables, its own initial predicate and its *)
(* own next-state relation; a subsystem's specification keeps the          *)
(* variables of the other subsystems at their idle values.                 *)
(*                                                                         *)
(* Numbers: the code works on floats.  Percentages with one decimal (edge) *)
(* are modelled in tenths, probabilities as a pair count / n_simulations,  *)
(* means as the pair <<sum, count>>.                                       *)
(***************************************************************************)
EXTENDS Integers, Sequences, FiniteSets, TLC

VARIABLES
    recIn,      \* arguments of PredictionService._get_recommendation
    recOut,     \* its return value (NoneStr before the call)
    mcLine,     \* prop_line handed to MonteCarloSimulator.simulate_prop
    mcOut,      \* its MonteCarloResult (None before the call)
    rawPlayer,  \* data/raw/player_game_logs.csv, rows in file order
    rawTeam,    \* data/raw/team_defensive_game_logs.csv, rows in file order
    featOut,    \* the table an offline builder wrote (None before it ran)
    rawPos,     \* the raw player rows read by the join pipeline, in file order
    posOut,     \* its pos_defense frame (None before it ran)
    playerLogs, \* table player_game_logs: a set of rows, id the primary key
    teamLogs,   \* table team_defensive_logs: a set of rows
    nextId,     \* the next value of the tables' id sequence
    today,      \* the current Eastern-time day number
    featReq,    \* the feature-service call in progress (None when idle)
    featResult, \* what the call returned or raised (None before it ended)
    job,        \* the ingest_and_cleanup run: its locals and its position
    redis,      \* the cache backend: a set of entries [key, value, ttl]
    cache_service, \* the process-wide CacheService: enabled, redis_client
    cron,       \* the fetch_tonights_games run: its locals and its position
    app,        \* the API process: lifespan state, CRON_SECRET, model_data
    connects,   \* number of clients made by aioredis.from_url in CacheService
    web,        \* the GET /nba/games... handler in flight
    cronReq,    \* the cron endpoint request being handled
    refresh,    \* the refresh_cache run: its locals and its position
    pred,       \* the POST /predict handler in flight
    migration,  \* the migrate_csv_to_db run: its position and what it did
    backfill,   \* the position fetch loop of ingest_player_points
    idCall      \* a call of _player_id: its argument and its result

recVars == <<recIn, recOut>>
mcVars == <<mcLine, mcOut>>
rollVars == <<rawPlayer, rawTeam, featOut>>
posVars == <<rawPos, posOut>>
dbVars == <<playerLogs, teamLogs, nextId, today>>
featVars == <<featReq, featResult>>
cacheVars == <<redis, cache_service, cron>>
appVars == <<app, connects, web, cronReq, refresh, pred>>
toolVars == <<migration, backfill, idCall>>
vars == <<recVars, mcVars, rollVars, posVars, dbVars, featVars, job, cacheVars,
          appVars, toolVars>>

\* an optional value is a sequence of at most one element: None, or Some(x)
None == <<>>
Some(x) == <<x>>
Val(o) == o[1]
\* the absent value of a string-valued variable
NoneStr == "none"

(***************************************************************************)
(* Generic helpers                                                         *)
(***************************************************************************)
Max2(a, b) == IF a >= b THEN a ELSE b

(***************************************************************************)
(* PredictionService._get_recommendation                                   *)
(*   edge is in tenths of a percent (3.0 -> 30), confidence in percent.    *)
(***************************************************************************)
MIN_EDGE_TENTHS == 30
MIN_CONFIDENCE == 55

EdgeSpread == 2
ConfSpread == 2
MaxProbIn == 2

RecInputs ==
    [edge : (MIN_EDGE_TENTHS - EdgeSpread)..(MIN_EDGE_TENTHS + EdgeSpread),
     confidence : (MIN_CONFIDENCE - ConfSpread)..(MIN_CONFIDENCE + ConfSpread),
     prob_over : 0..MaxProbIn, prob_under : 0..MaxProbIn]

\* mutant: the gate written with "or" (the reading of the code comment)
get_recommendation_or(edge, confidence, prob_over, prob_under) ==
    IF edge < MIN_EDGE_TENTHS \/ confidence < MIN_CONFIDENCE THEN "PASS"
    ELSE IF prob_over > prob_under THEN "OVER" ELSE "UNDER"

get_recommendation(edge, confidence, prob_over, prob_under) ==
    IF edge < MIN_EDGE_TENTHS /\ confidence < MIN_CONFIDENCE THEN "PASS"
    ELSE IF prob_over > prob_under THEN "OVER" ELSE "UNDER"

RecIdle == recIn = None /\ recOut = NoneStr

Recommend ==
    /\ recOut = NoneStr
    /\ recOut' = get_recommendation(Val(recIn).edge, Val(recIn).confidence,
                                    Val(recIn).prob_over, Val(recIn).prob_under)
    /\ UNCHANGED <<recIn, mcVars, rollVars, posVars, dbVars, featVars, job,
                   cacheVars, appVars,
                   toolVars>>

(***************************************************************************)
(* MonteCarloSimulator.simulate_prop                                       *)
(*   The normal draw is an arbitrary vector of n_simulations finite        *)
(*   samples; a probability is the pair (count, n).                        *)
(***************************************************************************)
MaxSimulations == 3
MaxSample == 3
MaxLine == 3

SampleVectors == [1..MaxSimulations -> 0..MaxSample]

CountOver(simulations, prop_line) ==
    Cardinality({i \in DOMAIN simulations : simulations[i] > prop_line})

\* mutant: the under side counted with a strict comparison
CountUnderStrict(simulations, prop_line) ==
    Cardinality({i \in DOMAIN simulations : simulations[i] < prop_line})

CountUnder(simulations, prop_line) ==
    Cardinality({i \in DOMAIN simulations : simulations[i] <= prop_line})

simulate_prop(simulations, prop_line) ==
    [n                 |-> Len(simulations),
     prop_line         |-> prop_line,
     simulations       |-> simulations,
     probability_over  |-> CountOver(simulations, prop_line),
     probability_under |-> CountUnder(simulations, prop_line),
     confidence_num    |-> Max2(CountOver(simulations, prop_line),
                                CountUnder(simulations, prop_line))]

McIdle == mcLine = 0 /\ mcOut = None

SimulateProp ==
    /\ mcOut = None
    /\ \E simulations \in SampleVectors :
          mcOut' = Some(simulate_prop(simulations, mcLine))
    /\ UNCHANGED <<recVars, mcLine, rollVars, posVars, dbVars, featVars, job,
                   cacheVars, appVars,
                   toolVars>>

(***************************************************************************)
(* Offline rolling-feature builders                                        *)
(*   data_processing/build_player_features.py                              *)
(*   data_processing/build_team_defense_rolling.py                         *)
(*   data_processing/join_player_rolling_defense_rolling.py (positional)   *)
(*                                                                         *)
(* A raw row is [grp, date, val]: grp is PLAYER_ID (or the code of         *)
(* TEAM_NAME), date the day number of GAME_DATE, val the aggregated column *)
(* (PTS, PTS_ALLOWED, ...).  NaN is None.  A rolling aggregate keeps the   *)
(* window's count, sum and sum of squares, from which pandas derives mean  *)
(* and std.                                                                *)
(***************************************************************************)
MaxRows == 11
Groups == {1, 2}

\* GAME_DATE of the k-th row of a group in file order: the file is not in
\* date order (distinct dates for k in 1..13)
DateOfNth(k) == (k * 7) % 13

\* 2^k: the value of a raw row names the row, so that an aggregate tells
\* which rows went into it
RECURSIVE Pow2(_)
Pow2(k) == IF k = 0 THEN 1 ELSE 2 * Pow2(k - 1)

RowsOf(raw, g) == {i \in DOMAIN raw : raw[i].grp = g}

\* df.sort_values([group, "GAME_DATE"])
KeyLess(a, b) == a.grp < b.grp \/ (a.grp = b.grp /\ a.date < b.date)

RECURSIVE InsertRow(_, _)
InsertRow(r, s) ==
    IF s = <<>> THEN <<r>>
    ELSE IF KeyLess(r, Head(s)) THEN <<r>> \o s
    ELSE <<Head(s)>> \o InsertRow(r, Tail(s))

RECURSIVE sort_values(_)
sort_values(s) ==
    IF s = <<>> THEN <<>> ELSE InsertRow(Head(s), sort_values(Tail(s)))

\* mutant: groupby(...)[col] without .shift(1): the row's own value
NoShift(df) == [i \in DOMAIN df |-> Some(df[i].val)]

\* df.groupby(group)[col].shift(1): a plain series in frame order, holding
\* the value of the previous row of the same group, NaN on a group's first row
GroupShift1(df) ==
    [i \in DOMAIN df |->
        LET before == {j \in 1..(i - 1) : df[j].grp = df[i].grp}
        IN  IF before = {} THEN None
            ELSE Some(df[CHOOSE j \in before : \A k \in before : k <= j].val)]

RECURSIVE SumOver(_, _)
SumOver(f, idx) ==
    IF idx = {} THEN 0
    ELSE LET i == CHOOSE x \in idx : TRUE
         IN  Val(f[i]) + SumOver(f, idx \ {i})

RECURSIVE SumSqOver(_, _)
SumSqOver(f, idx) ==
    IF idx = {} THEN 0
    ELSE LET i == CHOOSE x \in idx : TRUE
         IN  Val(f[i]) * Val(f[i]) + SumSqOver(f, idx \ {i})

\* series.rolling(window, min_periods).<agg>() at position i: the window is
\* the last `window` positions of the whole series, NaN entries are skipped,
\* and the result is NaN when fewer than min_periods entries are left
RollingAt(series, window, min_periods, i) ==
    LET lo   == IF i - window + 1 < 1 THEN 1 ELSE i - window + 1
        obs  == {j \in lo..i : series[j] # None}
    IN  IF Cardinality(obs) < min_periods THEN None
        ELSE Some([n |-> Cardinality(obs), sum |-> SumOver(series, obs),
                   sumsq |-> SumSqOver(series, obs)])

Rolling(series, window, min_periods) ==
    [i \in DOMAIN series |-> RollingAt(series, window, min_periods, i)]

\* group[col].shift(1).rolling(N)   (min_periods defaults to N)
ShiftRolling(df, window) == Rolling(GroupShift1(df), window, window)

\* build_player_features.py: sort, then PTS_L3 / PTS_L5 / PTS_L10
build_player_features(raw) ==
    LET df  == sort_values(raw)
        l3  == ShiftRolling(df, 3)
        l5  == ShiftRolling(df, 5)
        l10 == ShiftRolling(df, 10)
    IN  [i \in DOMAIN df |->
            [grp |-> df[i].grp, date |-> df[i].date, val |-> df[i].val,
             L3 |-> l3[i], L5 |-> l5[i], L10 |-> l10[i]]]

\* build_team_defense_rolling.py: sort, then DEF_PTS_ALLOWED_L5 (mean),
\* DEF_PTS_ALLOWED_STD_L10 (std) and TEAM_PACE_L10 share one window each
build_team_defense_rolling(raw) ==
    LET df  == sort_values(raw)
        l5  == ShiftRolling(df, 5)
        l10 == ShiftRolling(df, 10)
    IN  [i \in DOMAIN df |->
            [grp |-> df[i].grp, date |-> df[i].date, val |-> df[i].val,
             L3 |-> None, L5 |-> l5[i], L10 |-> l10[i]]]

RollIdle == rawPlayer = <<>> /\ rawTeam = <<>> /\ featOut = None

NewRawRow(raw, g) ==
    [grp |-> g, date |-> DateOfNth(Cardinality(RowsOf(raw, g)) + 1),
     val |-> Pow2(Len(raw))]

\* a row is written to data/raw/player_game_logs.csv (the two builders are
\* separate scripts over separate files: a run of the model fills one file)
AppendPlayerRow ==
    /\ featOut = None
    /\ rawTeam = <<>>
    /\ Len(rawPlayer) < MaxRows
    /\ \E g \in Groups : rawPlayer' = Append(rawPlayer, NewRawRow(rawPlayer, g))
    /\ UNCHANGED <<rawTeam, featOut, recVars, mcVars, posVars, dbVars, featVars, job,
                   cacheVars, appVars,
                   toolVars>>

\* a row is written to data/raw/team_defensive_game_logs.csv
AppendTeamRow ==
    /\ featOut = None
    /\ rawPlayer = <<>>
    /\ Len(rawTeam) < MaxRows
    /\ \E g \in Groups : rawTeam' = Append(rawTeam, NewRawRow(rawTeam, g))
    /\ UNCHANGED <<rawPlayer, featOut, recVars, mcVars, posVars, dbVars, featVars, job,
                   cacheVars, appVars,
                   toolVars>>

BuildPlayerFeatures ==
    /\ featOut = None
    /\ rawPlayer # <<>>
    /\ featOut' = Some([table |-> "player", raw |-> rawPlayer,
                        rows |-> build_player_features(rawPlayer)])
    /\ UNCHANGED <<rawPlayer, rawTeam, recVars, mcVars, posVars, dbVars, featVars, job,
                   cacheVars, appVars,
                   toolVars>>

BuildTeamDefenseRolling ==
    /\ featOut = None
    /\ rawTeam # <<>>
    /\ featOut' = Some([table |-> "team", raw |-> rawTeam,
                        rows |-> build_team_defense_rolling(rawTeam)])
    /\ UNCHANGED <<rawPlayer, rawTeam, recVars, mcVars, posVars, dbVars, featVars, job,
                   cacheVars, appVars,
                   toolVars>>

(***************************************************************************)
(* Positional defense of the join pipeline                                 *)
(*   data_processing/join_player_rolling_defense_rolling.py, lines 73-103  *)
(* A raw row is [opp, pos, date, pts]: opp the code of OPP_TEAM_NAME in    *)
(* name order, pos the POSITION column (NoneStr when missing).             *)
(***************************************************************************)
MaxPosRows == 4
MaxPosDate == 2
Opponents == {1, 2}
Positions == {"Forward", "Guard"}

\* the order of the POSITION strings
PosRank(pos) == IF pos = "Center" THEN 1 ELSE IF pos = "Forward" THEN 2 ELSE 3

\* raw_players.dropna(subset=["OPP_TEAM_NAME", "POSITION"])
DropMissing(raw) == SelectSeq(raw, LAMBDA r : r.pos # NoneStr)

\* groupby([OPP_TEAM_NAME, GAME_DATE, POSITION]).agg({PTS: sum}): one row per
\* key, val the total; grp is the (opponent, position) pair of the later
\* groupby, ranked in sort order
GroupTotals(raw) ==
    LET keys == {<<raw[i].opp, raw[i].pos, raw[i].date>> : i \in DOMAIN raw}
        vals == [i \in DOMAIN raw |-> Some(raw[i].pts)]
        row(k) == [grp |-> k[1] * 4 + PosRank(k[2]), opp |-> k[1],
                   pos |-> k[2], date |-> k[3],
                   val |-> SumOver(vals, {i \in DOMAIN raw :
                              <<raw[i].opp, raw[i].pos, raw[i].date>> = k})]
    IN  {row(k) : k \in keys}

RECURSIVE SetToSeq(_)
SetToSeq(S) ==
    IF S = {} THEN <<>>
    ELSE LET x == CHOOSE y \in S : TRUE IN <<x>> \o SetToSeq(S \ {x})

\* mutant: the rolling mean with the default min_periods (= window)
PosRollingFull(df, window) == Rolling(GroupShift1(df), window, window)

\* grouped_pos[col].shift(1).rolling(window, min_periods=1).mean()
PosRolling(df, window) == Rolling(GroupShift1(df), window, 1)

pos_defense(raw) ==
    LET df  == sort_values(SetToSeq(GroupTotals(DropMissing(raw))))
        l5  == PosRolling(df, 5)
        l10 == PosRolling(df, 10)
    IN  [i \in DOMAIN df |->
            [opp |-> df[i].opp, pos |-> df[i].pos, date |-> df[i].date,
             PTS_ALLOWED_TO_POS |-> df[i].val,
             DEF_PTS_VS_POS_L5 |-> l5[i], DEF_PTS_VS_POS_L10 |-> l10[i]]]

PosIdle == rawPos = <<>> /\ posOut = None

AppendRawPlayerRow ==
    /\ posOut = None
    /\ Len(rawPos) < MaxPosRows
    /\ \E o \in Opponents, p \in Positions \cup {NoneStr}, d \in 1..MaxPosDate :
          rawPos' = Append(rawPos, [opp |-> o, pos |-> p, date |-> d,
                                    pts |-> Pow2(Len(rawPos))])
    /\ UNCHANGED <<posOut, recVars, mcVars, rollVars, dbVars, featVars, job,
                   cacheVars, appVars,
                   toolVars>>

BuildPosDefense ==
    /\ posOut = None
    /\ rawPos # <<>>
    /\ posOut' = Some([raw |-> rawPos, rows |-> pos_defense(rawPos)])
    /\ UNCHANGED <<rawPos, recVars, mcVars, rollVars, dbVars, featVars, job,
                   cacheVars, appVars,
                   toolVars>>

(***************************************************************************)
(* The relational store and FeatureCalculationService                      *)
(*   app/models/nba_models.py, app/services/feature_service.py             *)
(*                                                                         *)
(* A player row is [id, player, team, position, matchup, game_date,        *)
(* points]; matchup is the set of the two abbreviations the matchup string *)
(* contains.  A team row is [id, team, game_date, pts_allowed, game_pace]. *)
(* A mean is [sum, n].                                                     *)
(***************************************************************************)
MaxDay == 11
MaxMissed == 2
TradeDay == 9

LEBRON == "LeBron James"
BRONNY == "Bronny James"
LAKERS == "Los Angeles Lakers"
CELTICS == "Boston Celtics"
MAVERICKS == "Dallas Mavericks"

TEAM_ABBR_TO_NAME ==
    [abbr \in {"LAL", "BOS", "DAL"} |->
        IF abbr = "LAL" THEN LAKERS
        ELSE IF abbr = "BOS" THEN CELTICS ELSE MAVERICKS]

\* PlayerGameLog.player.ilike('%' + pattern + '%')
ILike(player, pattern) ==
    \/ pattern = "james"
    \/ pattern = "lebron" /\ player = LEBRON
    \/ pattern = player

\* mutant: the date filter written with <=
OnOrBefore(rows, game_date) == {r \in rows : r.game_date <= game_date}

\* the filter "game_date < :game_date" every query of the service carries
Before(rows, game_date) == {r \in rows : r.game_date < game_date}

\* ORDER BY game_date DESC LIMIT n: the sets of rows the query may return
\* (rows of equal date come in an order the database chooses)
LatestN(rows, n) ==
    LET newerOrSame(r) == {x \in rows : x.game_date >= r.game_date}
        newer(r)       == {x \in rows : x.game_date > r.game_date}
        \* the rows that are in whatever the order of equal dates is
        definite == {r \in rows : Cardinality(newerOrSame(r)) <= n}
        \* the rows of the date the limit cuts through
        boundary == {r \in rows \ definite : Cardinality(newer(r)) < n}
    IN  IF boundary = {} THEN {definite}
        ELSE {definite \cup T : T \in {U \in SUBSET boundary :
                                    Cardinality(U) = n - Cardinality(definite)}}

RECURSIVE SumField(_, _)
SumField(rows, col) ==
    IF rows = {} THEN 0
    ELSE LET r == CHOOSE x \in rows : TRUE
         IN  r[col] + SumField(rows \ {r}, col)

MeanField(rows, col) == [sum |-> SumField(rows, col), n |-> Cardinality(rows)]
Const(x) == [sum |-> x, n |-> 1]

Error(kind) == [error |-> kind]
IsError(x) == "error" \in DOMAIN x

\* mutant: an average over whatever games exist (a partial window)
get_player_rolling_stats_partial(logs, player_name, game_date, lookback_days) ==
    LET matching == {r \in Before(logs, game_date) : r.player = player_name}
    IN  {IF games = {}
         THEN Error("insufficient data")
         ELSE [PTS |-> MeanField(games, "points"),
               MIN |-> MeanField(games, "minutes")]
         : games \in LatestN(matching, lookback_days)}

\* get_player_rolling_stats: the possible outcomes for one window
get_player_rolling_stats(logs, player_name, game_date, lookback_days) ==
    LET matching == {r \in Before(logs, game_date) : r.player = player_name}
    IN  {IF Cardinality(games) < lookback_days
         THEN Error("insufficient data")
         ELSE [PTS |-> MeanField(games, "points"),
               MIN |-> MeanField(games, "minutes")]
         : games \in LatestN(matching, lookback_days)}

\* get_rest_days
get_rest_days(logs, player_name, game_date) ==
    LET matching == {r \in Before(logs, game_date) : r.player = player_name}
    IN  IF matching = {} THEN 2
        ELSE game_date - (CHOOSE d \in {r.game_date : r \in matching} :
                            \A r \in matching : r.game_date <= d)

\* get_player_info(player_name, game_date): the rows the LIMIT 1 may return
get_player_info(logs, player_name, game_date) ==
    LET matching == {r \in Before(logs, game_date) : ILike(r.player, player_name)}
    IN  IF matching = {} THEN {Error("player not found")}
        ELSE {[player |-> r.player, team |-> r.team, position |-> r.position]
              : r \in {x \in matching : \A y \in matching : y.game_date <= x.game_date}}

\* get_opponent_defensive_stats
get_opponent_defensive_stats(tlogs, opponent_full_name, game_date, lookback_days) ==
    LET matching == {r \in Before(tlogs, game_date) : r.team = opponent_full_name}
    IN  {IF games = {}
         THEN [DEF_PTS_ALLOWED |-> Const(110), OPP_PACE |-> Const(100)]
         ELSE [DEF_PTS_ALLOWED |-> MeanField(games, "pts_allowed"),
               OPP_PACE |-> MeanField(games, "game_pace")]
         : games \in LatestN(matching, lookback_days)}

\* get_positional_defense_stats
get_positional_defense_stats(logs, opponent_abbr, player_position, game_date, lookback_days) ==
    IF player_position \notin {"Guard", "Forward", "Center"} THEN Const(55)
    ELSE
      LET games == {r \in Before(logs, game_date) :
                      r.position = player_position /\ opponent_abbr \in r.matchup}
          dates == {r.game_date : r \in games}
          sorted_dates == {d \in dates :
                             Cardinality({e \in dates : e > d}) < lookback_days}
      IN  IF Cardinality(games) < 5 THEN Const(55)
          ELSE [sum |-> SumField({r \in games : r.game_date \in sorted_dates},
                                 "points"),
                n |-> Cardinality(sorted_dates)]

\* get_team_pace_stats
get_team_pace_stats(tlogs, team_abbr, game_date, lookback_days) ==
    IF team_abbr \notin DOMAIN TEAM_ABBR_TO_NAME THEN {Const(100)}
    ELSE
      LET matching == {r \in Before(tlogs, game_date) :
                          r.team = TEAM_ABBR_TO_NAME[team_abbr]}
      IN  {IF games = {} THEN Const(100)
           ELSE MeanField(games, "game_pace")
           : games \in LatestN(matching, lookback_days)}

\* the abbreviation whose full name equals the opponent, ignoring case
OpponentAbbr(opponent) ==
    {abbr \in DOMAIN TEAM_ABBR_TO_NAME : TEAM_ABBR_TO_NAME[abbr] = opponent}

\* build_features_for_prediction: every outcome the call can have.  The
\* derived pace and possession features are functions of the ones kept here;
\* player, team and position are what its get_player_info returned.
build_features_for_prediction(logs, tlogs, req) ==
    UNION {
      IF IsError(info) THEN {info}
      ELSE UNION {
        IF IsError(l5) THEN {l5}
        ELSE UNION {
          IF IsError(l10) THEN {l10}
          ELSE {[IS_HOME |-> req.is_home,
                 player |-> info.player, team |-> info.team,
                 position |-> info.position,
                 PTS_L5 |-> l5.PTS, PTS_L10 |-> l10.PTS,
                 MIN_L5 |-> l5.MIN, MIN_L10 |-> l10.MIN,
                 REST_DAYS |-> get_rest_days(logs, info.player, req.game_date),
                 DEF_PTS_ALLOWED_L5 |-> d5.DEF_PTS_ALLOWED,
                 OPP_PACE_L5 |-> d5.OPP_PACE,
                 DEF_PTS_ALLOWED_L10 |-> d10.DEF_PTS_ALLOWED,
                 OPP_PACE_L10 |-> d10.OPP_PACE,
                 DEF_PTS_VS_POSITION_L5 |->
                    IF OpponentAbbr(req.opponent) = {} THEN Const(55)
                    ELSE get_positional_defense_stats(logs,
                            CHOOSE a \in OpponentAbbr(req.opponent) : TRUE,
                            info.position, req.game_date, 5),
                 DEF_PTS_VS_POSITION_L10 |->
                    IF OpponentAbbr(req.opponent) = {} THEN Const(55)
                    ELSE get_positional_defense_stats(logs,
                            CHOOSE a \in OpponentAbbr(req.opponent) : TRUE,
                            info.position, req.game_date, 10),
                 PLAYER_TEAM_PACE_L5 |-> p5, PLAYER_TEAM_PACE_L10 |-> p10]
                : d5 \in get_opponent_defensive_stats(tlogs, req.opponent,
                                                      req.game_date, 5),
                  d10 \in get_opponent_defensive_stats(tlogs, req.opponent,
                                                       req.game_date, 10),
                  p5 \in get_team_pace_stats(tlogs, info.team, req.game_date, 5),
                  p10 \in get_team_pace_stats(tlogs, info.team, req.game_date, 10)}
          : l10 \in get_player_rolling_stats(logs, info.player, req.game_date, 10)}
        : l5 \in get_player_rolling_stats(logs, info.player, req.game_date, 5)}
      : info \in get_player_info(logs, req.player_name, req.game_date)}

\* the rows one game day leaves in the store (LeBron James is traded to
\* Dallas on TradeDay; the position cache misses Bronny James every 4th day)
PlayerRowsOfDay(day, slate, id0) ==
    {[id |-> id0 + (IF who = LEBRON THEN 0 ELSE 1),
      player |-> who,
      team |-> IF who = LEBRON /\ day >= TradeDay THEN "DAL" ELSE "LAL",
      position |-> IF who = BRONNY /\ day % 4 = 0 THEN NoneStr ELSE "Forward",
      matchup |-> IF who = LEBRON /\ day >= TradeDay
                  THEN {"DAL", "MIA"} ELSE {"LAL", "BOS"},
      game_date |-> day,
      points |-> IF who = LEBRON THEN Pow2(day) ELSE 3 * Pow2(day),
      minutes |-> IF who = LEBRON THEN 36 ELSE 12]
     : who \in slate}

TeamRowsOfDay(day, id0) ==
    {[id |-> id0 + (IF t = LAKERS THEN 0 ELSE IF t = CELTICS THEN 1 ELSE 2),
      team |-> t, game_date |-> day,
      pts_allowed |-> Pow2(day), game_pace |-> 3 * Pow2(day)]
     : t \in IF day >= TradeDay THEN {LAKERS, CELTICS, MAVERICKS}
             ELSE {LAKERS, CELTICS}}

DbIdle == playerLogs = {} /\ teamLogs = {} /\ nextId = 1 /\ today = 1
FeatIdle == featReq = None /\ featResult = None

\* the game days LeBron James sat out so far
GamesMissed ==
    Cardinality({r \in playerLogs : r.player = BRONNY})
        - Cardinality({r \in playerLogs : r.player = LEBRON})

\* the games of `today` are stored (by ingestion or migration) and the
\* day ends
StoreGameDay ==
    /\ featReq = None
    /\ today <= MaxDay
    /\ \E slate \in {{LEBRON, BRONNY}, {BRONNY}} :
          /\ LEBRON \notin slate => GamesMissed < MaxMissed
          /\ playerLogs' = playerLogs \cup PlayerRowsOfDay(today, slate, nextId)
    /\ teamLogs' = teamLogs \cup TeamRowsOfDay(today, nextId + 2)
    /\ nextId' = nextId + 5
    /\ today' = today + 1
    /\ UNCHANGED <<featVars, recVars, mcVars, rollVars, posVars, job,
                   cacheVars, appVars,
                   toolVars>>

PredictionDates == {d \in (today - 3)..today : d >= 1}

\* build_features_for_prediction(player_name, player_team, opponent,
\* game_date, is_home) runs to its end
BuildFeaturesCall ==
    /\ featReq = None
    /\ \E name \in {"james", "lebron", "Stephen Curry"},
          opp \in {CELTICS, "Seattle SuperSonics"},
          d \in PredictionDates :
          LET req == [op |-> "build_features", player_name |-> name,
                      opponent |-> opp, game_date |-> d, is_home |-> 1,
                      lookback_days |-> 0]
          IN  /\ featReq' = Some(req)
              /\ \E out \in build_features_for_prediction(playerLogs, teamLogs, req) :
                    featResult' = Some(out)
    /\ UNCHANGED <<dbVars, recVars, mcVars, rollVars, posVars, job, cacheVars,
                   appVars,
                   toolVars>>

\* get_player_rolling_stats(player_name, game_date, lookback_days) runs to
\* its end
RollingStatsCall ==
    /\ featReq = None
    /\ \E name \in {LEBRON, BRONNY}, d \in PredictionDates, n \in {5, 10, 20} :
          LET req == [op |-> "rolling_stats", player_name |-> name,
                      opponent |-> NoneStr, game_date |-> d, is_home |-> 0,
                      lookback_days |-> n]
          IN  /\ featReq' = Some(req)
              /\ \E out \in get_player_rolling_stats(playerLogs, name, d, n) :
                    featResult' = Some(out)
    /\ UNCHANGED <<dbVars, recVars, mcVars, rollVars, posVars, job, cacheVars,
                   appVars,
                   toolVars>>

\* get_positional_defense_stats(opponent_abbr, player_position, game_date,
\* lookback_days) runs to its end
PositionalDefenseCall ==
    /\ featReq = None
    /\ \E abbr \in {"BOS", "MIA"}, position \in {"Forward", "Guard", NoneStr},
          d \in PredictionDates, n \in {5, 10} :
          /\ featReq' = Some([op |-> "positional_defense", player_name |-> position,
                              opponent |-> abbr, game_date |-> d, is_home |-> 0,
                              lookback_days |-> n])
          /\ featResult' =
                Some(get_positional_defense_stats(playerLogs, abbr, position, d, n))
    /\ UNCHANGED <<dbVars, recVars, mcVars, rollVars, posVars, job, cacheVars,
                   appVars,
                   toolVars>>

\* the cache and the morning job before anything ran (no REDIS_URL)
CronIdleRecord ==
    [pc |-> "idle", games |-> <<>>, fetched |-> "no", raised |-> FALSE,
     redis0 |-> {}, log |-> <<>>, runs |-> 0]

CacheIdle ==
    /\ redis = {}
    /\ cache_service = [enabled |-> FALSE, redis_client |-> "none"]
    /\ cron = CronIdleRecord

\* the API process before it was started
WebIdleRecord == [pc |-> "idle"]
CronReqIdleRecord == [pc |-> "idle", n |-> 0]
RefreshIdleRecord == [pc |-> "idle", runs |-> 0]

\* the scripts before they ran
MigrationIdleRecord == [pc |-> "idle", runs |-> 0]
BackfillIdleRecord == [pc |-> "idle"]
ToolIdle ==
    /\ migration = MigrationIdleRecord
    /\ backfill = BackfillIdleRecord
    /\ idCall = None

AppIdle ==
    /\ ToolIdle
    /\ app = [state |-> "down", CRON_SECRET |-> "", model_loaded |-> FALSE]
    /\ connects = 0
    /\ web = WebIdleRecord
    /\ cronReq = CronReqIdleRecord
    /\ refresh = RefreshIdleRecord
    /\ pred = None

(***************************************************************************)
(* The daily ingestion job                                                 *)
(*   scripts/ingest_and_cleanup_db.py, app/services/nba_data_service.py    *)
(*                                                                         *)
(* job.pc is the position in ingest_and_cleanup; job.failed records which  *)
(* steps met a failure of the stats feed or of the database in this run.   *)
(***************************************************************************)
RETENTION_DAYS == 60
StartDay == 100
MaxRuns == 2
MaxIngestDays == 1

JobIdle ==
    job = [pc |-> "idle", now |-> 0, player_logs |-> {}, team_logs |-> {},
           errors |-> {}, failed |-> {}, player_count |-> 0, team_count |-> 0,
           deleted_count |-> 0, raised |-> FALSE, runs |-> 0]

\* what the stats feed holds for one date: the dicts built by
\* fetch_player_game_logs / fetch_team_defensive_logs
FeedPlayerLogs(date, slate) ==
    {[player |-> who, team |-> "LAL", position |-> "Forward",
      matchup |-> {"LAL", "BOS"}, game_date |-> date, points |-> 20]
     : who \in slate}

FeedTeamLogs(date, slate) ==
    {[team |-> t, game_date |-> date, pts_allowed |-> 110, game_pace |-> 100]
     : t \in IF slate = {} THEN {} ELSE {LAKERS, CELTICS}}

\* session.add_all(records); commit: every record becomes a row with a
\* fresh id (no uniqueness is declared on the tables)
RECURSIVE AddAll(_, _, _)
AddAll(table, records, id0) ==
    IF records = {} THEN table
    ELSE LET r == CHOOSE x \in records : TRUE
         IN  AddAll(table \cup {[id |-> id0] @@ r}, records \ {r}, id0 + 1)

\* mutant: the sweep written with <=
DeleteOlderOrEqual(table, cutoff) == {r \in table : ~(r.game_date <= cutoff)}

\* delete(Table).where(Table.game_date < cutoff)
DeleteOlder(table, cutoff) == {r \in table : ~(r.game_date < cutoff)}

\* lines 31-42: now is read once; yesterday and the cutoff derive from it
StartIngest ==
    /\ job.pc = "idle"
    /\ job.runs < MaxRuns
    /\ job' = [job EXCEPT !.pc = "fetch_players", !.now = today,
                          !.player_logs = {}, !.team_logs = {},
                          !.errors = {}, !.failed = {}, !.player_count = 0,
                          !.team_count = 0, !.deleted_count = 0,
                          !.raised = FALSE, !.runs = @ + 1]
    /\ UNCHANGED <<dbVars, featVars, recVars, mcVars, rollVars, posVars,
                   cacheVars, appVars,
                   toolVars>>

\* fetch_player_game_logs(date_str): any exception of the feed is caught
\* inside the service and an empty list is returned
FetchPlayerLogs ==
    /\ job.pc = "fetch_players"
    /\ \/ \E slate \in {{}, {LEBRON}, {LEBRON, BRONNY}} :
             job' = [job EXCEPT !.pc = "fetch_teams",
                        !.player_logs = FeedPlayerLogs(job.now - 1, slate)]
       \/ job' = [job EXCEPT !.pc = "fetch_teams", !.player_logs = {},
                             !.failed = @ \cup {"fetch_players"}]
    /\ UNCHANGED <<dbVars, featVars, recVars, mcVars, rollVars, posVars,
                   cacheVars, appVars,
                   toolVars>>

\* fetch_team_defensive_logs(date_str): the same
FetchTeamLogs ==
    /\ job.pc = "fetch_teams"
    /\ \/ \E slate \in {{}, {LEBRON}} :
             job' = [job EXCEPT !.pc = "insert_players",
                        !.team_logs = FeedTeamLogs(job.now - 1, slate)]
       \/ job' = [job EXCEPT !.pc = "insert_players", !.team_logs = {},
                             !.failed = @ \cup {"fetch_teams"}]
    /\ UNCHANGED <<dbVars, featVars, recVars, mcVars, rollVars, posVars,
                   cacheVars, appVars,
                   toolVars>>

\* insert_player_logs(player_logs, session): commits, or raises into the
\* inner except of the job (line 57), which skips the team insert
InsertPlayerLogs ==
    /\ job.pc = "insert_players"
    /\ \/ /\ playerLogs' = AddAll(playerLogs, job.player_logs, nextId)
          /\ nextId' = nextId + Cardinality(job.player_logs)
          /\ job' = [job EXCEPT !.pc = "insert_teams",
                        !.player_count = Cardinality(job.player_logs)]
       \/ /\ job.player_logs # {}
          /\ job' = [job EXCEPT !.pc = "cleanup",
                        !.errors = @ \cup {"Database insertion failed"},
                        !.failed = @ \cup {"insert"}]
          /\ UNCHANGED <<playerLogs, nextId>>
    /\ UNCHANGED <<teamLogs, today, featVars, recVars, mcVars, rollVars, posVars,
                   cacheVars, appVars,
                   toolVars>>

\* insert_team_defensive_logs(team_logs, session)
InsertTeamLogs ==
    /\ job.pc = "insert_teams"
    /\ \/ /\ teamLogs' = AddAll(teamLogs, job.team_logs, nextId)
          /\ nextId' = nextId + Cardinality(job.team_logs)
          /\ job' = [job EXCEPT !.pc = "cleanup",
                        !.team_count = Cardinality(job.team_logs)]
       \/ /\ job.team_logs # {}
          /\ job' = [job EXCEPT !.pc = "cleanup",
                        !.errors = @ \cup {"Database insertion failed"},
                        !.failed = @ \cup {"insert"}]
          /\ UNCHANGED <<teamLogs, nextId>>
    /\ UNCHANGED <<playerLogs, today, featVars, recVars, mcVars, rollVars, posVars,
                   cacheVars, appVars,
                   toolVars>>

\* cleanup_old_data(cutoff_date, session) with cutoff = now - 60 days: both
\* deletes commit together, or the call raises into the except of line 75
CleanupOldData ==
    /\ job.pc = "cleanup"
    /\ \/ /\ playerLogs' = DeleteOlder(playerLogs, job.now - RETENTION_DAYS)
          /\ teamLogs' = DeleteOlder(teamLogs, job.now - RETENTION_DAYS)
          /\ job' = [job EXCEPT !.pc = "summary",
                        !.deleted_count =
                            Cardinality(playerLogs \ playerLogs')
                              + Cardinality(teamLogs \ teamLogs')]
       \/ /\ job' = [job EXCEPT !.pc = "summary",
                        !.errors = @ \cup {"Database cleanup failed"},
                        !.failed = @ \cup {"cleanup"}]
          /\ UNCHANGED <<playerLogs, teamLogs>>
    /\ UNCHANGED <<nextId, today, featVars, recVars, mcVars, rollVars, posVars,
                   cacheVars, appVars,
                   toolVars>>

\* lines 80-99: the summary is printed and the job raises if errors is not
\* empty
FinishIngest ==
    /\ job.pc = "summary"
    /\ job' = [job EXCEPT !.pc = "idle", !.raised = (job.errors # {})]
    /\ UNCHANGED <<dbVars, featVars, recVars, mcVars, rollVars, posVars,
                   cacheVars, appVars,
                   toolVars>>

\* midnight Eastern passes between two runs
NextDay ==
    /\ job.pc = "idle"
    /\ today < StartDay + MaxIngestDays
    /\ today' = today + 1
    /\ UNCHANGED <<playerLogs, teamLogs, nextId, job, featVars, recVars,
                   mcVars, rollVars, posVars, cacheVars, appVars,
                   toolVars>>

\* the store before the first run: one row per (player, game_date), some of
\* them older than the retention window
OldDates == (StartDay - RETENTION_DAYS - 2)..(StartDay - RETENTION_DAYS + 1)

InitIngest ==
    /\ today = StartDay
    /\ \E dates \in SUBSET OldDates :
          /\ playerLogs =
                {[id |-> d, player |-> LEBRON, team |-> "LAL",
                  position |-> "Forward", matchup |-> {"LAL", "BOS"},
                  game_date |-> d, points |-> 20] : d \in dates}
          /\ teamLogs =
                {[id |-> d, team |-> LAKERS, game_date |-> d,
                  pts_allowed |-> 110, game_pace |-> 100] : d \in dates}
    /\ nextId = StartDay
    /\ JobIdle
    /\ FeatIdle /\ RecIdle /\ McIdle /\ RollIdle /\ PosIdle /\ CacheIdle
    /\ AppIdle

NextIngest ==
    \/ StartIngest
    \/ FetchPlayerLogs
    \/ FetchTeamLogs
    \/ InsertPlayerLogs
    \/ InsertTeamLogs
    \/ CleanupOldData
    \/ FinishIngest
    \/ NextDay
SpecIngest == InitIngest /\ [][NextIngest]_vars

(***************************************************************************)
(* The odds cache and the morning job                                      *)
(*   app/services/cache_service.py, scripts/fetch_tonights_games.py        *)
(*                                                                         *)
(* A key is the sequence of its colon-separated segments.  cron.pc is the  *)
(* position in fetch_tonights_games; cron.redis0 is the backend content    *)
(* when the run started, cron.log the cache operations that took effect.   *)
(***************************************************************************)
MaxCronRuns == 2
Events == {"e1", "e2"}

\* mutant: the date is taken once, when the process starts
get_today_et_at_start == ToString(1)

\* strftime("%Y-%m-%d") of the current Eastern date
get_today_et == ToString(today)
get_games_key == <<"nba", "games", get_today_et>>
get_players_key(event_id) == <<"nba", "game", event_id, "players", get_today_et>>

\* glob match of nba:*:{day}
MatchesPattern(key, day) ==
    Len(key) >= 3 /\ key[1] = "nba" /\ key[Len(key)] = day

json_dumps(x) == [json |-> x]

\* SETEX key ttl value
Setex(store, key, ttl, value) ==
    {e \in store : e.key # key} \cup {[key |-> key, value |-> value, ttl |-> ttl]}

\* lines 29-33: connect(), and the early return when the cache is off
CronConnect ==
    /\ cron.pc = "idle"
    /\ cron.runs < MaxCronRuns
    /\ LET started == [CronIdleRecord EXCEPT !.redis0 = redis,
                                             !.runs = cron.runs + 1]
       IN  \/ /\ ~cache_service.enabled
              /\ cron' = [started EXCEPT !.pc = "done"]
              /\ UNCHANGED <<cache_service, connects>>
           \/ /\ cache_service.enabled
              /\ connects' = connects + 1
              /\ \/ /\ cache_service' = [cache_service EXCEPT !.redis_client = "open"]
                    /\ cron' = [started EXCEPT !.pc = "provider"]
                 \/ /\ cache_service' = [enabled |-> FALSE, redis_client |-> "open"]
                    /\ cron' = [started EXCEPT !.pc = "done"]
    /\ UNCHANGED <<redis, dbVars, featVars, recVars, mcVars, rollVars, posVars, job,
                   app, web, cronReq, refresh, pred,
                   toolVars>>

\* line 36: TheOddsNbaProvider() raises when the API key is missing; this is
\* outside the try, so close() does not run
CronProvider ==
    /\ cron.pc = "provider"
    /\ \/ cron' = [cron EXCEPT !.pc = "fetch"]
       \/ cron' = [cron EXCEPT !.pc = "done", !.raised = TRUE]
    /\ UNCHANGED <<redis, cache_service, dbVars, featVars, recVars, mcVars,
                   rollVars, posVars, job, appVars,
                   toolVars>>

\* line 42: provider.get_games(); a failure goes through except (re-raise)
\* and finally (close)
CronFetch ==
    /\ cron.pc = "fetch"
    /\ \/ /\ \E games \in {<<>>, <<"e1">>, <<"e1", "e2">>} :
                cron' = [cron EXCEPT !.pc = "clear", !.games = games,
                                     !.fetched = "ok"]
          /\ UNCHANGED cache_service
       \/ /\ cron' = [cron EXCEPT !.pc = "done", !.fetched = "failed",
                                  !.raised = TRUE]
          /\ cache_service' = [cache_service EXCEPT !.redis_client = "closed"]
    /\ UNCHANGED <<redis, dbVars, featVars, recVars, mcVars, rollVars, posVars, job,
                   appVars,
                   toolVars>>

\* clear_today(): scan nba:*:{today} and delete the keys found; a backend
\* error is printed and 0 returned
clear_today(store) == {e \in store : ~MatchesPattern(e.key, get_today_et)}

CronClear ==
    /\ cron.pc = "clear"
    /\ \/ /\ redis' = clear_today(redis)
          /\ cron' = [cron EXCEPT !.pc = "set", !.log = Append(@, "clear")]
       \/ /\ cron' = [cron EXCEPT !.pc = "set"]
          /\ UNCHANGED redis
    /\ UNCHANGED <<cache_service, dbVars, featVars, recVars, mcVars, rollVars,
                   posVars, job, appVars,
                   toolVars>>

\* set_games(games, ttl_hours=24): setex under today's games key; a backend
\* error is printed and False returned
set_games(store, games, ttl_hours) ==
    Setex(store, get_games_key, ttl_hours * 3600, json_dumps(games))

\* lines 51-78: set_games (its result is not looked at), the summary, and
\* close() in the finally
CronSetGames ==
    /\ cron.pc = "set"
    /\ \/ /\ redis' = set_games(redis, cron.games, 24)
          /\ cron' = [cron EXCEPT !.pc = "done", !.log = Append(@, "set")]
       \/ /\ cron' = [cron EXCEPT !.pc = "done"]
          /\ UNCHANGED redis
    /\ cache_service' = [cache_service EXCEPT !.redis_client = "closed"]
    /\ UNCHANGED <<dbVars, featVars, recVars, mcVars, rollVars, posVars, job,
                   appVars,
                   toolVars>>

\* the run is over; the next trigger may come
CronReturn ==
    /\ cron.pc = "done"
    /\ cron.runs < MaxCronRuns
    /\ cron' = [cron EXCEPT !.pc = "idle"]
    /\ UNCHANGED <<redis, cache_service, dbVars, featVars, recVars, mcVars,
                   rollVars, posVars, job, appVars,
                   toolVars>>

\* what the cache may hold before a run: yesterday's and today's lists and
\* players of one game of each day
StaleEntries ==
    {[key |-> <<"nba", "games", ToString(d)>>, value |-> json_dumps(<<"e0">>),
      ttl |-> 24 * 3600] : d \in {today - 1, today}}
    \cup
    {[key |-> <<"nba", "game", "e0", "players", ToString(d)>>,
      value |-> json_dumps(<<LEBRON>>), ttl |-> 10 * 3600]
     : d \in {today - 1, today}}

InitCron ==
    /\ DbIdle /\ FeatIdle /\ RecIdle /\ McIdle /\ RollIdle /\ PosIdle /\ JobIdle
    /\ AppIdle
    /\ redis \in SUBSET StaleEntries
    /\ \E enabled \in BOOLEAN :
          cache_service = [enabled |-> enabled, redis_client |-> "none"]
    /\ cron = CronIdleRecord

NextCron ==
    \/ CronConnect
    \/ CronProvider
    \/ CronFetch
    \/ CronClear
    \/ CronSetGames
    \/ CronReturn
SpecCron == InitCron /\ [][NextCron]_vars

(***************************************************************************)
(* The API process                                                         *)
(*   app/main.py (lifespan), app/api/nba_routes.py                         *)
(*                                                                         *)
(* cronReq is the cron endpoint request being handled: the endpoint, the   *)
(* X-Cron-Secret header it carried (NoneStr when absent), the status       *)
(* answered (0 while the body runs) and runs0, the number of runs of the   *)
(* endpoint's job before the request.  One cron request is handled at a    *)
(* time; GET handlers run concurrently with it.                            *)
(***************************************************************************)
MaxCronRequests == 2
SECRET == "s3cret"
Headers == {NoneStr, "", SECRET, "guess"}
CronEndpoints == {"fetch-tonights-games", "ingest-and-cleanup", "daily-odds-refresh"}

\* mutant: a disabled service tries the backend again
connect_again(cs) ==
    {cs, [cs EXCEPT !.redis_client = "open"], [enabled |-> TRUE, redis_client |-> "open"],
     [enabled |-> FALSE, redis_client |-> "open"]}

\* CacheService.connect(): nothing when disabled; else a client is made and
\* pinged, and a failure of either disables the service
connect(cs) ==
    IF ~cs.enabled THEN {cs}
    ELSE {[cs EXCEPT !.redis_client = "open"],
          [enabled |-> FALSE, redis_client |-> "open"],
          [enabled |-> FALSE, redis_client |-> cs.redis_client]}

\* CacheService.close(): closes the client if there is one
close(cs) ==
    IF cs.redis_client # "none" THEN [cs EXCEPT !.redis_client = "closed"] ELSE cs

\* lifespan, before the yield: the model artifacts are loaded (a failure
\* re-raises and the process does not start), then cache_service.connect()
Startup ==
    /\ app.state = "down"
    /\ app' = [app EXCEPT !.state = "up", !.model_loaded = TRUE]
    /\ cache_service' \in connect(cache_service)
    /\ connects' = IF cache_service.enabled /\ cache_service'.redis_client = "open"
                   THEN connects + 1 ELSE connects
    /\ UNCHANGED <<redis, cron, web, cronReq, refresh, pred, dbVars, featVars,
                   recVars, mcVars, rollVars, posVars, job,
                   toolVars>>

\* lifespan, after the yield, once no request is in flight
Shutdown ==
    /\ app.state = "up"
    /\ web.pc = "idle" /\ cronReq.pc # "body"
    /\ app' = [app EXCEPT !.state = "stopped", !.model_loaded = FALSE]
    /\ cache_service' = close(cache_service)
    /\ UNCHANGED <<redis, cron, connects, web, cronReq, refresh, pred, dbVars,
                   featVars, recVars, mcVars, rollVars, posVars, job,
                   toolVars>>

\* mutant: the guard lets a request through when no secret is configured
verify_cron_secret_open(cron_secret, x_cron_secret) ==
    IF cron_secret # "" /\ x_cron_secret # cron_secret THEN 403 ELSE 200

\* verify_cron_secret: the status the dependency answers, 200 when it
\* returns True
verify_cron_secret(cron_secret, x_cron_secret) ==
    IF cron_secret = "" THEN 500
    ELSE IF x_cron_secret # cron_secret THEN 403
    ELSE 200

\* number of runs of an endpoint's job so far
RunsOf(endpoint) ==
    CASE endpoint = "fetch-tonights-games" -> cron.runs
      [] endpoint = "ingest-and-cleanup" -> job.runs
      [] endpoint = "daily-odds-refresh" -> refresh.runs

\* a POST /nba/cron/... arrives; the dependency runs before the handler
CronRequestOf(endpoints, headers) ==
    /\ app.state = "up"
    /\ cronReq.pc # "body"
    /\ cronReq.n < MaxCronRequests
    /\ cron.pc = "idle" /\ job.pc = "idle" /\ refresh.pc = "idle"
    /\ \E endpoint \in endpoints, header \in headers :
          LET status == verify_cron_secret(app.CRON_SECRET, header)
          IN  cronReq' = [pc |-> IF status = 200 THEN "body" ELSE "answered",
                          endpoint |-> endpoint, header |-> header,
                          status |-> IF status = 200 THEN 0 ELSE status,
                          runs0 |-> RunsOf(endpoint), n |-> cronReq.n + 1]
    /\ UNCHANGED <<app, connects, web, refresh, pred, cacheVars, dbVars, featVars,
                   recVars, mcVars, rollVars, posVars, job,
                   toolVars>>

CronRequest ==
    /\ app.CRON_SECRET \in {"", SECRET}
    /\ CronRequestOf(CronEndpoints, Headers)

\* the requests to the endpoint of the morning job
CacheCronRequest ==
    /\ web.pc \in {"idle", "read", "provider", "write", "answered"}
    /\ CronRequestOf({"fetch-tonights-games"}, {SECRET, "guess"})

\* the handler of /cron/fetch-tonights-games calls fetch_tonights_games()
FetchTonightsGamesBody ==
    /\ cronReq.pc = "body" /\ cronReq.endpoint = "fetch-tonights-games"
    /\ cron.runs = cronReq.runs0
    /\ CronConnect

\* the handler of /cron/ingest-and-cleanup calls ingest_and_cleanup()
IngestAndCleanupBody ==
    /\ cronReq.pc = "body" /\ cronReq.endpoint = "ingest-and-cleanup"
    /\ job.runs = cronReq.runs0
    /\ StartIngest

\* whether the job of the request has returned, and whether it raised
BodyReturned ==
    CASE cronReq.endpoint = "fetch-tonights-games" ->
             cron.runs > cronReq.runs0 /\ cron.pc \in {"done", "idle"}
      [] cronReq.endpoint = "ingest-and-cleanup" ->
             job.runs > cronReq.runs0 /\ job.pc = "idle"
      [] cronReq.endpoint = "daily-odds-refresh" ->
             refresh.runs > cronReq.runs0 /\ refresh.pc \in {"done", "idle"}

BodyRaised ==
    CASE cronReq.endpoint = "fetch-tonights-games" -> cron.raised
      [] cronReq.endpoint = "ingest-and-cleanup" -> job.raised
      [] cronReq.endpoint = "daily-odds-refresh" -> refresh.raised

\* the try/except of the three handlers: success, or 500 "Cron job failed"
CronAnswer ==
    /\ cronReq.pc = "body"
    /\ BodyReturned
    /\ cronReq' = [cronReq EXCEPT !.pc = "answered",
                                  !.status = IF BodyRaised THEN 500 ELSE 200]
    /\ UNCHANGED <<app, connects, web, refresh, pred, cacheVars, dbVars, featVars,
                   recVars, mcVars, rollVars, posVars, job,
                   toolVars>>

(***************************************************************************)
(* CacheService operations as seen by a caller, and the two GET handlers   *)
(*   app/services/cache_service.py, app/api/nba_routes.py                  *)
(*                                                                         *)
(* An operation yields the set of its possible outcomes: the value         *)
(* returned, whether the backend was contacted (io) and the backend        *)
(* content afterwards.  A command sent to the backend either takes effect  *)
(* or fails, and the failure is caught inside the operation; this is also  *)
(* so for a client that was closed, which the library may reconnect.       *)
(* A game stands for its dict and for its GameDTO (the two carry the same  *)
(* four fields); a payload is a list of them, stored as JSON text.         *)
(***************************************************************************)
MaxWebRequests == 2
GameLists == {<<>>, <<"e1">>, <<"e1", "e2">>}
PlayerLists == {<<>>, <<LEBRON>>}

json_loads(text) == text.json

\* mutant: only the client is tested, not the enabled flag
UsableClientOnly(cs) == cs.redis_client # "none"

\* line 68: the guard every operation starts with
Usable(cs) == cs.enabled /\ cs.redis_client # "none"

Lookup(store, key) ==
    IF \E e \in store : e.key = key
    THEN Some((CHOOSE e \in store : e.key = key).value)
    ELSE None

\* mutant: a backend error leaves the operation as an exception
CacheReadRaising(cs, store, key) ==
    IF ~Usable(cs) THEN {[result |-> None, io |-> FALSE, error |-> FALSE]}
    ELSE {[result |-> IF Lookup(store, key) = None THEN None
                      ELSE Some(json_loads(Val(Lookup(store, key)))),
           io |-> TRUE, error |-> FALSE],
          [result |-> Some(Error("redis")), io |-> TRUE, error |-> TRUE]}

\* get_games / get_players: GET key, json.loads when something is stored;
\* the second outcome is the except branch (error: the backend failed)
CacheRead(cs, store, key) ==
    IF ~Usable(cs) THEN {[result |-> None, io |-> FALSE, error |-> FALSE]}
    ELSE {[result |-> IF Lookup(store, key) = None THEN None
                      ELSE Some(json_loads(Val(Lookup(store, key)))),
           io |-> TRUE, error |-> FALSE],
          [result |-> None, io |-> TRUE, error |-> TRUE]}

get_games(cs, store) == CacheRead(cs, store, get_games_key)
get_players(cs, store, event_id) == CacheRead(cs, store, get_players_key(event_id))

\* set_games / set_players: SETEX key ttl_hours*3600 json.dumps(payload)
CacheWrite(cs, store, key, payload, ttl_hours) ==
    IF ~Usable(cs)
    THEN {[result |-> FALSE, io |-> FALSE, error |-> FALSE, store |-> store]}
    ELSE {[result |-> TRUE, io |-> TRUE, error |-> FALSE,
           store |-> Setex(store, key, ttl_hours * 3600, json_dumps(payload))],
          [result |-> FALSE, io |-> TRUE, error |-> TRUE, store |-> store]}

try_set_games(cs, store, games, ttl_hours) ==
    CacheWrite(cs, store, get_games_key, games, ttl_hours)
set_players(cs, store, event_id, players, ttl_hours) ==
    CacheWrite(cs, store, get_players_key(event_id), players, ttl_hours)

\* clear_today as a caller sees it: the number of keys deleted
try_clear_today(cs, store) ==
    IF ~Usable(cs)
    THEN {[result |-> 0, io |-> FALSE, error |-> FALSE, store |-> store]}
    ELSE {[result |-> Cardinality(store \ clear_today(store)), io |-> TRUE,
           error |-> FALSE, store |-> clear_today(store)],
          [result |-> 0, io |-> TRUE, error |-> TRUE, store |-> store]}

\* a GET /nba/games or GET /nba/games/{event_id}/players arrives
WebRequestUpTo(requests) ==
    /\ app.state = "up"
    /\ web.pc \in {"idle", "answered"}
    /\ (IF web.pc = "idle" THEN 0 ELSE web.n) < requests
    /\ \E route \in {"games", "players"} :
          web' = [pc |-> "read", route |-> route, event_id |-> "e1",
                  n |-> (IF web.pc = "idle" THEN 0 ELSE web.n) + 1,
                  cached |-> None, fetched |-> None, provider_calls |-> 0,
                  io |-> 0, errors |-> {}, wrote |-> None, entry |-> {},
                  status |-> 0,
                  body |-> None,
                  client0 |-> cache_service.redis_client,
                  connects0 |-> connects, client_seen |-> {},
                  prev |-> IF web.pc = "idle" THEN None
                           ELSE Some([route |-> web.route, fetched |-> web.fetched,
                                      wrote |-> web.wrote]),
                  since_write |-> IF web.pc = "idle" THEN None
                                  ELSE web.since_write,
                  age_at_read |-> None]
    /\ UNCHANGED <<app, connects, cronReq, refresh, pred, cacheVars, dbVars,
                   featVars, recVars, mcVars, rollVars, posVars, job,
                   toolVars>>

\* mutant: the provider is asked whatever the cache read returned
WebCacheReadThrough ==
    /\ web.pc = "read"
    /\ \E out \in (IF web.route = "games"
                   THEN get_games(cache_service, redis)
                   ELSE get_players(cache_service, redis, web.event_id)) :
          web' = [web EXCEPT
                    !.cached = out.result,
                    !.io = @ + (IF out.io THEN 1 ELSE 0),
                    !.errors = @ \cup (IF out.error THEN {"read"} ELSE {}),
                    !.age_at_read = web.since_write,
                    !.client_seen = @ \cup {<<cache_service.redis_client, connects>>},
                    !.pc = "provider"]
    /\ UNCHANGED <<app, connects, cronReq, refresh, pred, cacheVars, dbVars,
                   featVars, recVars, mcVars, rollVars, posVars, job,
                   toolVars>>

WebRequest ==
    /\ web.pc # "read"
    /\ WebRequestUpTo(MaxWebRequests)

\* the only GET request of a behaviour
FirstWebRequest ==
    /\ web.pc = "idle"
    /\ WebRequestUpTo(1)

\* lines 33-36 / 62-82: the cache read; a hit is answered from the payload
WebCacheRead ==
    /\ web.pc = "read"
    /\ \E out \in (IF web.route = "games"
                   THEN get_games(cache_service, redis)
                   ELSE get_players(cache_service, redis, web.event_id)) :
          web' = [web EXCEPT
                    !.cached = out.result,
                    !.io = @ + (IF out.io THEN 1 ELSE 0),
                    !.errors = @ \cup (IF out.error THEN {"read"} ELSE {}),
                    !.age_at_read = web.since_write,
                    !.client_seen = @ \cup {<<cache_service.redis_client, connects>>},
                    !.pc = IF out.result # None THEN "answered" ELSE "provider",
                    !.status = IF out.result # None THEN 200 ELSE 0,
                    !.body = out.result]
    /\ UNCHANGED <<app, connects, cronReq, refresh, pred, cacheVars, dbVars,
                   featVars, recVars, mcVars, rollVars, posVars, job,
                   toolVars>>

\* lines 39 / 85: the provider call; an exception of the provider leaves the
\* handler and the framework answers 500
WebProvider ==
    /\ web.pc = "provider"
    /\ \/ \E payload \in (IF web.route = "games" THEN GameLists ELSE PlayerLists) :
             web' = [web EXCEPT !.pc = "write", !.fetched = Some(payload),
                                !.provider_calls = @ + 1]
       \/ web' = [web EXCEPT !.pc = "answered", !.status = 500,
                             !.provider_calls = @ + 1]
    /\ UNCHANGED <<app, connects, cronReq, refresh, pred, cacheVars, dbVars,
                   featVars, recVars, mcVars, rollVars, posVars, job,
                   toolVars>>

\* lines 42-53 / 88-108: the cache write (24 hours for games, 10 for
\* players), then the provider's result is returned
WebCacheWrite ==
    /\ web.pc = "write"
    /\ \E out \in (IF web.route = "games"
                   THEN try_set_games(cache_service, redis, Val(web.fetched), 24)
                   ELSE set_players(cache_service, redis, web.event_id,
                                    Val(web.fetched), 10)) :
          /\ redis' = out.store
          /\ web' = [web EXCEPT
                       !.pc = "answered", !.status = 200, !.body = web.fetched,
                       !.wrote = Some(out.result),
                       !.entry = out.store \ redis,
                       !.io = @ + (IF out.io THEN 1 ELSE 0),
                       !.errors = @ \cup (IF out.error THEN {"write"} ELSE {}),
                       !.since_write = IF out.result THEN Some(0) ELSE @,
                       !.client_seen = @ \cup {<<cache_service.redis_client, connects>>}]
    /\ UNCHANGED <<app, connects, cronReq, refresh, pred, cache_service, cron,
                   dbVars, featVars, recVars, mcVars, rollVars, posVars, job,
                   toolVars>>

\* what the request before this one did, and the seconds since the last
\* successful write of the handlers, are kept for the properties
TickSeconds == 43200
MaxAge == 86400

\* mutant: no key ever expires
ElapseKeep(store, seconds) == store

\* the store after the given seconds: each TTL runs down and a key whose TTL
\* has run out is gone
Elapse(store, seconds) ==
    {[e EXCEPT !.ttl = @ - seconds] : e \in {x \in store : x.ttl > seconds}}

\* time passes
Tick ==
    /\ redis # {} \/ (web.pc # "idle" /\ web.since_write # None
                        /\ Val(web.since_write) < MaxAge)
    /\ redis' = Elapse(redis, TickSeconds)
    /\ web' = IF web.pc # "idle" /\ web.since_write # None
                   /\ Val(web.since_write) < MaxAge
              THEN [web EXCEPT !.since_write = Some(Val(@) + TickSeconds)]
              ELSE web
    /\ UNCHANGED <<app, connects, cronReq, refresh, pred, cache_service, cron,
                   dbVars, featVars, recVars, mcVars, rollVars, posVars, job,
                   toolVars>>

(***************************************************************************)
(* The daily odds refresh                                                  *)
(*   scripts/daily_odds_refresh.py (refresh_cache)                         *)
(*                                                                         *)
(* results holds, for each game attempted, its event id, whether its       *)
(* players were fetched, the players, and what set_players returned.       *)
(***************************************************************************)
MaxRefreshRuns == 2

\* lines 31-34: connect(), and the early return when the cache is off
RefreshConnect ==
    /\ refresh.pc = "idle"
    /\ refresh.runs < MaxRefreshRuns
    /\ cron.pc \in {"idle", "done"}
    /\ \E cs \in connect(cache_service) :
          /\ cache_service' = cs
          /\ connects' = IF cache_service.enabled THEN connects + 1 ELSE connects
          /\ refresh' = [pc |-> IF cs.enabled THEN "games" ELSE "done",
                         runs |-> refresh.runs + 1, raised |-> FALSE,
                         read |-> None, source |-> "none", games |-> <<>>,
                         i |-> 1, results |-> <<>>, closed |-> FALSE]
    /\ UNCHANGED <<redis, cron, app, web, cronReq, pred, dbVars, featVars,
                   recVars, mcVars, rollVars, posVars, job,
                   toolVars>>

\* lines 38-40: get_games(); "if not cached_games" sends None and the empty
\* list to the live fetch
RefreshGetGames ==
    /\ refresh.pc = "games"
    /\ \E out \in get_games(cache_service, redis) :
          refresh' = IF out.result # None /\ Val(out.result) # <<>>
                     THEN [refresh EXCEPT !.pc = "provider", !.read = out.result,
                                          !.source = "cache",
                                          !.games = Val(out.result)]
                     ELSE [refresh EXCEPT !.pc = "fallback", !.read = out.result]
    /\ UNCHANGED <<redis, cache_service, cron, app, connects, web, cronReq, pred,
                   dbVars, featVars, recVars, mcVars, rollVars, posVars, job,
                   toolVars>>

\* lines 43-57: the live fetch and set_games(ttl_hours=24); this is before
\* the try, so a failure of the provider leaves refresh_cache at once
RefreshLiveFetch ==
    /\ refresh.pc = "fallback"
    /\ \/ /\ refresh' = [refresh EXCEPT !.pc = "done", !.raised = TRUE]
          /\ UNCHANGED redis
       \/ \E games \in GameLists :
            \E out \in try_set_games(cache_service, redis, games, 24) :
               /\ redis' = out.store
               /\ refresh' = [refresh EXCEPT !.pc = "provider", !.source = "live",
                                             !.games = games]
    /\ UNCHANGED <<cache_service, cron, app, connects, web, cronReq, pred,
                   dbVars, featVars, recVars, mcVars, rollVars, posVars, job,
                   toolVars>>

\* line 60: TheOddsNbaProvider(), before the try
RefreshProvider ==
    /\ refresh.pc = "provider"
    /\ \/ refresh' = [refresh EXCEPT !.pc = "loop"]
       \/ refresh' = [refresh EXCEPT !.pc = "done", !.raised = TRUE]
    /\ UNCHANGED <<redis, cache_service, cron, app, connects, web, cronReq, pred,
                   dbVars, featVars, recVars, mcVars, rollVars, posVars, job,
                   toolVars>>

\* mutant: a game whose fetch fails ends the run
RefreshGameAbort ==
    /\ refresh.pc = "loop"
    /\ refresh.i <= Len(refresh.games)
    /\ LET event_id == refresh.games[refresh.i]
       IN  \/ /\ refresh' = [refresh EXCEPT
                               !.pc = "done", !.raised = TRUE,
                               !.results = Append(@, [event_id |-> event_id,
                                                      fetched |-> FALSE,
                                                      players |-> <<>>,
                                                      cached |-> FALSE])]
              /\ UNCHANGED redis
           \/ \E players \in PlayerLists :
                \E out \in set_players(cache_service, redis, event_id, players, 24) :
                   /\ redis' = out.store
                   /\ refresh' = [refresh EXCEPT
                                    !.i = @ + 1,
                                    !.results = Append(@, [event_id |-> event_id,
                                                           fetched |-> TRUE,
                                                           players |-> players,
                                                           cached |-> out.result])]
    /\ UNCHANGED <<cache_service, cron, app, connects, web, cronReq, pred,
                   dbVars, featVars, recVars, mcVars, rollVars, posVars, job,
                   toolVars>>

\* lines 65-103: one pass of the loop: get_prop_players(event_id), then
\* set_players(event_id, players, ttl_hours=24); an exception is printed
\* and the loop continues
RefreshGame ==
    /\ refresh.pc = "loop"
    /\ refresh.i <= Len(refresh.games)
    /\ LET event_id == refresh.games[refresh.i]
       IN  \/ /\ refresh' = [refresh EXCEPT
                               !.i = @ + 1,
                               !.results = Append(@, [event_id |-> event_id,
                                                      fetched |-> FALSE,
                                                      players |-> <<>>,
                                                      cached |-> FALSE])]
              /\ UNCHANGED redis
           \/ \E players \in PlayerLists :
                \E out \in set_players(cache_service, redis, event_id, players, 24) :
                   /\ redis' = out.store
                   /\ refresh' = [refresh EXCEPT
                                    !.i = @ + 1,
                                    !.results = Append(@, [event_id |-> event_id,
                                                           fetched |-> TRUE,
                                                           players |-> players,
                                                           cached |-> out.result])]
    /\ UNCHANGED <<cache_service, cron, app, connects, web, cronReq, pred,
                   dbVars, featVars, recVars, mcVars, rollVars, posVars, job,
                   toolVars>>

\* lines 105-121: the summary, and close() in the finally
RefreshClose ==
    /\ refresh.pc = "loop"
    /\ refresh.i > Len(refresh.games)
    /\ cache_service' = close(cache_service)
    /\ refresh' = [refresh EXCEPT !.pc = "done", !.closed = TRUE]
    /\ UNCHANGED <<redis, cron, app, connects, web, cronReq, pred, dbVars,
                   featVars, recVars, mcVars, rollVars, posVars, job,
                   toolVars>>

\* the run is over; the next trigger may come
RefreshReturn ==
    /\ refresh.pc = "done"
    /\ refresh.runs < MaxRefreshRuns
    /\ refresh' = [refresh EXCEPT !.pc = "idle"]
    /\ UNCHANGED <<redis, cache_service, cron, app, connects, web, cronReq, pred,
                   dbVars, featVars, recVars, mcVars, rollVars, posVars, job,
                   toolVars>>

\* the handler of /cron/daily-odds-refresh calls refresh_cache()
DailyOddsRefreshBody ==
    /\ cronReq.pc = "body" /\ cronReq.endpoint = "daily-odds-refresh"
    /\ refresh.runs = cronReq.runs0
    /\ RefreshConnect

\* today's cached game list, as the morning job leaves it
CachedGames(games) ==
    {[key |-> get_games_key, value |-> json_dumps(games), ttl |-> 24 * 3600]}

InitRefresh ==
    /\ DbIdle /\ FeatIdle /\ RecIdle /\ McIdle /\ RollIdle /\ PosIdle /\ JobIdle
    /\ app = [state |-> "down", CRON_SECRET |-> "", model_loaded |-> FALSE]
    /\ connects = 0
    /\ web = WebIdleRecord
    /\ cronReq = CronReqIdleRecord
    /\ refresh = RefreshIdleRecord
    /\ pred = None
    /\ ToolIdle
    /\ redis \in {{}, StaleEntries} \cup {CachedGames(games) : games \in GameLists}
    /\ \E enabled \in BOOLEAN :
          cache_service = [enabled |-> enabled, redis_client |-> "none"]
    /\ cron = CronIdleRecord

\* refresh_cache run as a script
NextRefresh ==
    \/ RefreshConnect
    \/ RefreshGetGames
    \/ RefreshLiveFetch
    \/ RefreshProvider
    \/ RefreshGame
    \/ RefreshClose
    \/ RefreshReturn
SpecRefresh == InitRefresh /\ [][NextRefresh]_vars

(***************************************************************************)
(* POST /predict                                                           *)
(*   app/main.py (predict_player_points),                                  *)
(*   app/services/prediction_service.py (PredictionService.predict)        *)
(*                                                                         *)
(* The regressor's output and the normal draw are an arbitrary sample      *)
(* vector.  Odds are American odds; edge is in tenths of a percent,        *)
(* rounded down, confidence in percent, rounded down (both are only        *)
(* compared with whole thresholds).                                        *)
(***************************************************************************)
GamesStored == 10
ROOKIE == "Cam Rookie"
NOT_FOUND_DETAIL == "Player not found in database. Data may not be available yet."
FAILED_DETAIL == "Prediction failed. Please try again later."
NOT_LOADED_DETAIL == "Model not loaded. Server is starting up."

\* an exception that is not a ValueError (a failed database query)
OtherError(kind) == [error |-> kind, class |-> "Exception"]
IsValueError(e) == IsError(e) /\ "class" \notin DOMAIN e

\* the store the predictions read: GamesStored game days of LeBron James and
\* Bronny James, and of a rookie who did not score
PredictStore ==
    UNION {PlayerRowsOfDay(day, {LEBRON, BRONNY}, 5 * day)
             \cup {[id |-> 5 * day + 2, player |-> ROOKIE, team |-> "LAL",
                    position |-> "Guard", matchup |-> {"LAL", "BOS"},
                    game_date |-> day, points |-> 0, minutes |-> 4]}
           : day \in 1..GamesStored}

PredictTeamStore == UNION {TeamRowsOfDay(day, 5 * day) : day \in 1..GamesStored}

\* _calculate_edge(probability, american_odds) for probability = count / n
calculate_edge(count, n, american_odds) ==
    IF american_odds > 0
    THEN (10 * (count * (american_odds + 100) - 100 * n)) \div n
    ELSE (10 * (count * (10000 + 100 * (-american_odds))
                  - 100 * n * (-american_odds)))
            \div (n * (-american_odds))

\* lines 69-75: the critical features, in the order they are looked at
CRITICAL_FEATURES == <<"PTS_L5", "PTS_L10", "MIN_L5", "DEF_PTS_ALLOWED_L5", "REST_DAYS">>

\* feat not in features_dict or features_dict[feat] == 0 (an average is zero
\* when its sum is; REST_DAYS is a number of days)
MissingOrZero(features, feat) ==
    \/ feat \notin DOMAIN features
    \/ IF feat = "REST_DAYS" THEN features[feat] = 0 ELSE features[feat].sum = 0

\* the ValueError of line 71: "Critical feature '<feat>' is missing or zero"
CriticalError(feat) == [error |-> "critical feature", feature |-> feat]

RECURSIVE FirstCritical(_, _)
FirstCritical(features, i) ==
    IF i > Len(CRITICAL_FEATURES) THEN None
    ELSE IF MissingOrZero(features, CRITICAL_FEATURES[i])
    THEN Some(CRITICAL_FEATURES[i])
    ELSE FirstCritical(features, i + 1)

\* mutant: the features go to the model unchecked
critical_failure_unchecked(features) == None

\* the for loop of lines 70-75: the feature the ValueError names, if any
critical_failure(features) == FirstCritical(features, 1)
        \cup (IF features.REST_DAYS = 0 THEN {"REST_DAYS"} ELSE {})

\* mutant: the analysis is built only for a truthy prop line
HasPropLineTruthy(prop_line) == prop_line # None /\ Val(prop_line) # 0

\* line 146: prop_line is not None
HasPropLine(prop_line) == prop_line # None

\* lines 144-170: the Monte Carlo block of the response
monte_carlo_analysis(req, simulations) ==
    IF ~HasPropLine(req.prop_line) THEN None
    ELSE LET mc == simulate_prop(simulations, Val(req.prop_line))
             edge == Max2(calculate_edge(mc.probability_over, mc.n, req.over_odds),
                          calculate_edge(mc.probability_under, mc.n, req.under_odds))
             confidence == (100 * mc.confidence_num) \div mc.n
         IN  Some([n |-> mc.n,
                   probability_over |-> mc.probability_over,
                   probability_under |-> mc.probability_under,
                   edge |-> edge,
                   confidence_score |-> confidence,
                   recommendation |->
                      get_recommendation(edge, confidence, mc.probability_over,
                                         mc.probability_under)])

\* PredictionService.predict: every outcome of one call, an exception or the
\* PredictionResponse
\* lines 77-200 for a feature map that passed the check: the model is
\* invoked once (line 97) and the response built
PredictionResponse(req, features, info, simulations) ==
    [player_name |-> info.player, position |-> info.position,
     team |-> info.team, opponent |-> req.opponent,
     game_date |-> req.game_date,
     last_5_avg |-> features.PTS_L5,
     monte_carlo |-> monte_carlo_analysis(req, simulations)]

\* result is the exception or the response; features is the feature map when
\* one was built, model_calls the number of self.model.predict(X) calls made
predict(logs, tlogs, req, simulations) ==
    {[result |-> OtherError("database unavailable"), features |-> None,
      model_calls |-> 0]} \cup
    UNION {
      IF IsError(features)
      THEN {[result |-> features, features |-> None, model_calls |-> 0]}
      ELSE IF critical_failure(features) # None
      THEN {[result |-> CriticalError(Val(critical_failure(features))),
             features |-> Some(features), model_calls |-> 0]}
      ELSE {[result |-> PredictionResponse(req, features, info, simulations),
             features |-> Some(features), model_calls |-> 1]
            : info \in get_player_info(logs, req.player_name, req.game_date)}
      : features \in build_features_for_prediction(logs, tlogs, req)}

\* mutant: every failure of the prediction is answered 500
predict_player_points_500(model_loaded, outcome) ==
    IF ~model_loaded
    THEN [status |-> 503, detail |-> NOT_LOADED_DETAIL, body |-> None]
    ELSE IF IsError(outcome)
    THEN [status |-> 500, detail |-> FAILED_DETAIL, body |-> None]
    ELSE [status |-> 200, detail |-> "", body |-> Some(outcome)]

\* predict_player_points: the status and detail answered
predict_player_points(model_loaded, outcome) ==
    IF ~model_loaded
    THEN [status |-> 503, detail |-> NOT_LOADED_DETAIL, body |-> None]
    ELSE IF IsValueError(outcome)
    THEN [status |-> 404, detail |-> NOT_FOUND_DETAIL, body |-> None]
    ELSE IF IsError(outcome)
    THEN [status |-> 500, detail |-> FAILED_DETAIL, body |-> None]
    ELSE [status |-> 200, detail |-> "", body |-> Some(outcome)]

\* the draws of a service built with n_simulations = MaxSimulations or with
\* an even n_simulations, where the two sides can tie
EvenSimulations == 2
PredictSamples == SampleVectors \cup [1..EvenSimulations -> 0..MaxSample]

PredictRequests ==
    [op : {"predict"}, player_name : {LEBRON, ROOKIE, "Stephen Curry"},
     opponent : {CELTICS}, game_date : {today, today - 4}, is_home : {1},
     lookback_days : {0},
     prop_line : {None, Some(0), Some(2)},
     over_odds : {-110, 150}, under_odds : {-110}]

\* one POST /predict, handled to its answer; outcome is what predict() did,
\* or None when it was not called.  The handler writes nothing it later
\* reads, so a behaviour follows a single request.
PredictCall ==
    /\ pred = None
    /\ \E req \in PredictRequests :
          IF ~app.model_loaded
          THEN pred' = Some([req |-> req, model_loaded |-> FALSE,
                             outcome |-> None, features |-> None,
                             model_calls |-> 0,
                             response |-> predict_player_points(FALSE, None)])
          ELSE \E simulations \in PredictSamples :
                 \E call \in predict(playerLogs, teamLogs, req, simulations) :
                    pred' = Some([req |-> req, model_loaded |-> TRUE,
                                  outcome |-> Some(call.result),
                                  features |-> call.features,
                                  model_calls |-> call.model_calls,
                                  response |-> predict_player_points(TRUE, call.result)])
    /\ UNCHANGED <<app, connects, web, cronReq, refresh, cacheVars, dbVars,
                   featVars, recVars, mcVars, rollVars, posVars, job,
                   toolVars>>

InitPredict ==
    /\ playerLogs = PredictStore
    /\ teamLogs = PredictTeamStore
    /\ nextId = 5 * (GamesStored + 1)
    /\ today = GamesStored + 1
    /\ FeatIdle /\ RecIdle /\ McIdle /\ RollIdle /\ PosIdle /\ JobIdle
    /\ CacheIdle /\ AppIdle

NextPredict ==
    \/ Startup
    \/ PredictCall
    \/ Shutdown
SpecPredict == InitPredict /\ [][NextPredict]_vars

(***************************************************************************)
(* The CSV-to-database migration                                           *)
(*   scripts/migrate_csv_to_db.py                                          *)
(*                                                                         *)
(* now is a day number and a time of day (0 at midnight); a game date is   *)
(* a day at midnight, so the filter GAME_DATE >= now - 60 days keeps the   *)
(* day now - 60 only for a run at midnight.                                *)
(***************************************************************************)
MaxMigrations == 2
MIGRATION_DAYS == 60

CsvDays == {StartDay - 61, StartDay - 60, StartDay - 59, StartDay - 1}
CsvPlayerLogs == UNION {FeedPlayerLogs(d, {LEBRON, BRONNY}) : d \in CsvDays}
CsvTeamLogs == UNION {FeedTeamLogs(d, {LEBRON}) : d \in CsvDays}

\* lines 40-41 / 91-92: df[df['GAME_DATE'] >= Timestamp.now() - 60 days]
CsvKept(csv, now, time_of_day) ==
    {r \in csv : \/ r.game_date > now - MIGRATION_DAYS
                 \/ r.game_date = now - MIGRATION_DAYS /\ time_of_day = 0}

\* the rows of a table without their ids
Content(table) == {[f \in DOMAIN r \ {"id"} |-> r[f]] : r \in table}

\* what a table holds after drop_tables raised: the exception is printed and
\* the rows stay
DropFailed(table) == table

\* main, lines 144-147: drop_tables(); its exception is swallowed
MigrateDrop ==
    /\ migration.pc = "idle"
    /\ migration.runs < MaxMigrations
    /\ \E time_of_day \in {0, 1} :
          \/ /\ playerLogs' = {} /\ teamLogs' = {} /\ nextId' = 1
             /\ migration' = [pc |-> "create", runs |-> migration.runs,
                              now |-> today, time_of_day |-> time_of_day,
                              dropped |-> TRUE,
                              before |-> <<Content(playerLogs), Content(teamLogs)>>]
          \/ /\ playerLogs' = DropFailed(playerLogs)
             /\ teamLogs' = DropFailed(teamLogs)
             /\ UNCHANGED nextId
             /\ migration' = [pc |-> "create", runs |-> migration.runs,
                              now |-> today, time_of_day |-> time_of_day,
                              dropped |-> FALSE,
                              before |-> <<Content(playerLogs), Content(teamLogs)>>]
    /\ UNCHANGED <<today, featVars, recVars, mcVars, rollVars, posVars, job,
                   cacheVars, appVars, backfill, idCall>>

\* line 149: create_tables(); existing tables are left as they are
MigrateCreate ==
    /\ migration.pc = "create"
    /\ \/ migration' = [migration EXCEPT !.pc = "players"]
       \/ migration' = [migration EXCEPT !.pc = "failed"]
    /\ UNCHANGED <<dbVars, featVars, recVars, mcVars, rollVars, posVars, job,
                   cacheVars, appVars, backfill, idCall>>

\* line 150: migrate_player_logs(): add_all and commit, or an exception
MigratePlayerLogs ==
    /\ migration.pc = "players"
    /\ \/ LET records == CsvKept(CsvPlayerLogs, migration.now, migration.time_of_day)
          IN  /\ playerLogs' = AddAll(playerLogs, records, nextId)
              /\ nextId' = nextId + Cardinality(records)
              /\ migration' = [migration EXCEPT !.pc = "teams"]
       \/ /\ migration' = [migration EXCEPT !.pc = "failed"]
          /\ UNCHANGED <<playerLogs, nextId>>
    /\ UNCHANGED <<teamLogs, today, featVars, recVars, mcVars, rollVars, posVars,
                   job, cacheVars, appVars, backfill, idCall>>

\* line 151: migrate_team_defensive_logs()
MigrateTeamLogs ==
    /\ migration.pc = "teams"
    /\ \/ LET records == CsvKept(CsvTeamLogs, migration.now, migration.time_of_day)
          IN  /\ teamLogs' = AddAll(teamLogs, records, nextId)
              /\ nextId' = nextId + Cardinality(records)
              /\ migration' = [migration EXCEPT !.pc = "verify"]
       \/ /\ migration' = [migration EXCEPT !.pc = "failed"]
          /\ UNCHANGED <<teamLogs, nextId>>
    /\ UNCHANGED <<playerLogs, today, featVars, recVars, mcVars, rollVars,
                   posVars, job, cacheVars, appVars, backfill, idCall>>

\* lines 152-156: verify_migration() counts the rows; "Migration completed
\* successfully!"
MigrateVerify ==
    /\ migration.pc = "verify"
    /\ migration' = [migration EXCEPT !.pc = "done", !.runs = @ + 1]
    /\ UNCHANGED <<dbVars, featVars, recVars, mcVars, rollVars, posVars, job,
                   cacheVars, appVars, backfill, idCall>>

\* the script is started again, with the same files on the same day
MigrateAgain ==
    /\ migration.pc = "done"
    /\ migration.runs < MaxMigrations
    /\ migration' = [pc |-> "idle", runs |-> migration.runs]
    /\ UNCHANGED <<dbVars, featVars, recVars, mcVars, rollVars, posVars, job,
                   cacheVars, appVars, backfill, idCall>>

\* the tables before the script: absent or empty, or holding rows of an
\* earlier load
InitMigrate ==
    /\ today = StartDay
    /\ \E old \in SUBSET {StartDay - 90, StartDay - 1} :
          /\ playerLogs = AddAll({}, UNION {FeedPlayerLogs(d, {LEBRON}) : d \in old}, 1)
          /\ teamLogs = AddAll({}, UNION {FeedTeamLogs(d, {LEBRON}) : d \in old}, 1)
          /\ nextId = 1 + 2 * Cardinality(old)
    /\ FeatIdle /\ RecIdle /\ McIdle /\ RollIdle /\ PosIdle /\ JobIdle
    /\ CacheIdle /\ AppIdle

NextMigrate ==
    \/ MigrateDrop
    \/ MigrateCreate
    \/ MigratePlayerLogs
    \/ MigrateTeamLogs
    \/ MigrateVerify
    \/ MigrateAgain
SpecMigrate == InitMigrate /\ [][NextMigrate]_vars

(***************************************************************************)
(* _player_id                                                              *)
(*   app/betData/providers/theodds_nba_provider.py                         *)
(*                                                                         *)
(* A name is a sequence of characters over a small alphabet with an upper  *)
(* and a lower case letter and two whitespace characters.  The SHA-1       *)
(* digest is a positional code of the bytes, printed in hexadecimal; on    *)
(* names of the modelled length no two byte strings share a code.          *)
(***************************************************************************)
MaxNameLen == 4
ID_LENGTH == 12
Alphabet == {"L", "l", " ", "\t"}
Names == UNION {[1..n -> Alphabet] : n \in 0..MaxNameLen}

IsSpace(c) == c \in {" ", "\t"}

RECURSIVE lstrip(_)
lstrip(name) ==
    IF name # <<>> /\ IsSpace(Head(name)) THEN lstrip(Tail(name)) ELSE name

RECURSIVE rstrip(_)
rstrip(name) ==
    IF name # <<>> /\ IsSpace(name[Len(name)])
    THEN rstrip(SubSeq(name, 1, Len(name) - 1)) ELSE name

\* str.strip()
strip(name) == rstrip(lstrip(name))

\* str.lower()
lower(name) == [i \in DOMAIN name |-> IF name[i] = "L" THEN "l" ELSE name[i]]

\* re.sub(r"\s+", " ", text)
RECURSIVE sub_spaces(_)
sub_spaces(text) ==
    IF text = <<>> THEN <<>>
    ELSE IF IsSpace(Head(text)) THEN <<" ">> \o sub_spaces(lstrip(text))
    ELSE <<Head(text)>> \o sub_spaces(Tail(text))

\* hashlib.sha1(bytes).hexdigest()
ByteOf(c) == CASE c = "L" -> 1 [] c = "l" -> 2 [] c = " " -> 3 [] c = "\t" -> 4

RECURSIVE Digest(_)
Digest(bytes) ==
    IF bytes = <<>> THEN 0
    ELSE 5 * Digest(SubSeq(bytes, 1, Len(bytes) - 1)) + ByteOf(bytes[Len(bytes)])

HexDigits == <<"0", "1", "2", "3", "4", "5", "6", "7", "8", "9",
               "a", "b", "c", "d", "e", "f">>

RECURSIVE Hex(_, _)
Hex(n, width) ==
    IF width = 0 THEN <<>>
    ELSE Hex(n \div 16, width - 1) \o <<HexDigits[(n % 16) + 1]>>

sha1_hexdigest(bytes) == Hex(Digest(bytes), 40)

\* mutant: the name is hashed without being lower-cased
player_id_cased(name) ==
    SubSeq(sha1_hexdigest(sub_spaces(strip(name))), 40 - ID_LENGTH + 1, 40)

\* _player_id(name); the first 12 digits of the digest are modelled by the
\* 12 digits of the code that vary
player_id(name) ==
    SubSeq(sha1_hexdigest(sub_spaces(lower(strip(name)))), 40 - ID_LENGTH + 1, 40)

\* get_prop_players builds a PlayerDTO for a name of the feed
PlayerIdCall ==
    /\ idCall = None
    /\ \E name \in Names : idCall' = Some([name |-> name, id |-> player_id(name)])
    /\ UNCHANGED <<dbVars, featVars, recVars, mcVars, rollVars, posVars, job,
                   cacheVars, appVars, migration, backfill>>

InitId ==
    /\ DbIdle /\ FeatIdle /\ RecIdle /\ McIdle /\ RollIdle /\ PosIdle /\ JobIdle
    /\ CacheIdle /\ AppIdle

NextId == PlayerIdCall
SpecId == InitId /\ [][NextId]_vars

(***************************************************************************)
(* The position fetch loop of the CSV ingestion                            *)
(*   data_ingestion/ingest_player_points.py                                *)
(*                                                                         *)
(* The missing players are numbered 1..n in list order.  The process may   *)
(* be killed between any two steps.  The cache file is written by          *)
(* open(CACHE_PATH, 'wb'), which empties the file, followed by             *)
(* pickle.dump; between the two the file holds no readable map.            *)
(***************************************************************************)
MaxBackfillPlayers == 101
checkpoint_interval == 50
max_retries == 3

\* the players whose lookups may raise (timeouts, rate limiting)
FlakyPlayers == {1, checkpoint_interval, 2 * checkpoint_interval}

\* what CommonPlayerInfo reports for a player: a position, a combined
\* position, or a frame without a usable POSITION
ApiPosition(pid) ==
    CASE pid % 5 = 0 -> "Guard"
      [] pid % 5 = 1 -> "Forward"
      [] pid % 5 = 2 -> "Center"
      [] pid % 5 = 3 -> "Guard-Forward"
      [] pid % 5 = 4 -> ""

\* lines 152-159
PositionOf(api_position) ==
    IF api_position \in {"Guard", "Forward", "Center"} THEN api_position ELSE "Unknown"

Put(map, key, value) ==
    [k \in DOMAIN map \cup {key} |-> IF k = key THEN value ELSE map[k]]

\* the next iteration of the for loop over missing_players, or the final save
NextPlayer(b) ==
    IF b.idx < b.n
    THEN [b EXCEPT !.pc = "attempt", !.idx = b.idx + 1, !.attempt = 0,
                   !.calls = 0, !.ok = FALSE, !.position = "Unknown",
                   !.processed = b.idx]
    ELSE [b EXCEPT !.pc = "final", !.processed = b.idx]

BackfillFrame ==
    UNCHANGED <<dbVars, featVars, recVars, mcVars, rollVars, posVars, job,
                cacheVars, appVars, migration, idCall>>

\* lines 112-135: the cached map is loaded and the missing players listed
BackfillLoad ==
    /\ backfill.pc = "idle"
    /\ \E cached \in {<<>>, [k \in {0} |-> "Center"]}, n \in {0, 3, MaxBackfillPlayers} :
          backfill' = [pc |-> IF n = 0 THEN "done" ELSE "attempt",
                       n |-> n, idx |-> 1, attempt |-> 0, calls |-> 0,
                       ok |-> FALSE, position |-> "Unknown", processed |-> 0,
                       player_positions |-> cached,
                       disk |-> [content |-> cached, complete |-> TRUE]]
    /\ BackfillFrame

\* lines 142-169: one pass of the retry loop for the player at idx
BackfillAttempt ==
    /\ backfill.pc = "attempt"
    /\ \/ LET position == PositionOf(ApiPosition(backfill.idx))
          IN  backfill' = [backfill EXCEPT
                             !.pc = "pace", !.calls = @ + 1, !.ok = TRUE,
                             !.position = position,
                             !.player_positions = Put(@, backfill.idx, position)]
       \/ /\ backfill.idx \in FlakyPlayers
          /\ IF backfill.attempt < max_retries - 1
             THEN backfill' = [backfill EXCEPT !.calls = @ + 1, !.attempt = @ + 1]
             ELSE backfill' = [backfill EXCEPT
                                 !.pc = "pace", !.calls = @ + 1,
                                 !.player_positions = Put(@, backfill.idx, "Unknown")]
    /\ BackfillFrame

\* lines 171-175: the pacing sleep and the checkpoint test
BackfillPace ==
    /\ backfill.pc = "pace"
    /\ backfill' = IF backfill.idx % checkpoint_interval = 0
                   THEN [backfill EXCEPT !.pc = "checkpoint"]
                   ELSE NextPlayer(backfill)
    /\ BackfillFrame

\* lines 177 and 183: open(CACHE_PATH, 'wb')
BackfillOpen ==
    /\ backfill.pc \in {"checkpoint", "final"}
    /\ backfill' = [backfill EXCEPT
                      !.pc = IF @ = "checkpoint" THEN "checkpoint_dump" ELSE "final_dump",
                      !.disk = [content |-> <<>>, complete |-> FALSE]]
    /\ BackfillFrame

\* lines 178 and 184: pickle.dump(player_positions, f) and the close
BackfillDump ==
    /\ backfill.pc \in {"checkpoint_dump", "final_dump"}
    /\ LET written == [backfill EXCEPT
                         !.disk = [content |-> backfill.player_positions,
                                   complete |-> TRUE]]
       IN  backfill' = IF backfill.pc = "checkpoint_dump"
                       THEN NextPlayer(written)
                       ELSE [written EXCEPT !.pc = "done"]
    /\ BackfillFrame

\* the process is killed
BackfillCrash ==
    /\ backfill.pc \notin {"idle", "done", "crashed"}
    /\ backfill' = [backfill EXCEPT !.pc = "crashed"]
    /\ BackfillFrame

InitBackfill ==
    /\ DbIdle /\ FeatIdle /\ RecIdle /\ McIdle /\ RollIdle /\ PosIdle /\ JobIdle
    /\ CacheIdle /\ AppIdle

NextBackfill ==
    \/ BackfillLoad
    \/ BackfillAttempt
    \/ BackfillPace
    \/ BackfillOpen
    \/ BackfillDump
    \/ BackfillCrash

SpecBackfill == InitBackfill /\ [][NextBackfill]_vars

(***************************************************************************)
(* The Eastern date of the cache keys                                      *)
(*   app/services/cache_service.py (_get_today_et and the key builders)    *)
(***************************************************************************)
MaxMidnights == 1

\* midnight Eastern passes: datetime.now(ET) is on the next date from now on
Midnight ==
    /\ today <= MaxMidnights
    /\ today' = today + 1
    /\ UNCHANGED <<playerLogs, teamLogs, nextId, job, featVars, recVars,
                   mcVars, rollVars, posVars, cacheVars, appVars, toolVars>>

\* the only request to the endpoint of the morning job in a behaviour
FirstCronRequest ==
    /\ cronReq.pc = "idle"
    /\ CronRequestOf({"fetch-tonights-games"}, {SECRET})

\* the GET handlers and the morning job over days
NextDays ==
    \/ Startup
    \/ Shutdown
    \/ FirstCronRequest
    \/ FetchTonightsGamesBody
    \/ CronProvider
    \/ CronFetch
    \/ CronClear
    \/ CronSetGames
    \/ CronReturn
    \/ CronAnswer
    \/ FirstWebRequest
    \/ WebCacheRead
    \/ WebProvider
    \/ WebCacheWrite
    \/ Midnight

(***************************************************************************)
(* One prediction next to a running ingestion                              *)
(*   app/services/prediction_service.py (predict, lines 55-91)             *)
(*                                                                         *)
(* predict awaits build_features_for_prediction, which looks the player up *)
(* (feature_service.py:366), and then looks the player up again (line 65); *)
(* rows committed by another session in between are seen by the second     *)
(* query.  Here the store holds LeBron James's games only, and the game    *)
(* day stored during the request may be Bronny James's first.              *)
(***************************************************************************)
IdentityStore ==
    UNION {PlayerRowsOfDay(day, {LEBRON}, 5 * day) : day \in 1..GamesStored}

IdentityRequests ==
    [op : {"predict"}, player_name : {"james", "lebron", LEBRON},
     opponent : {CELTICS, "Seattle SuperSonics"},
     game_date : {GamesStored + 2, GamesStored + 3}, is_home : {0, 1},
     lookback_days : {0},
     prop_line : {None}, over_odds : {-110}, under_odds : {-110}]

\* lines 55-62: the feature map is built
IdentityFeatures ==
    /\ pred = None
    /\ \E req \in IdentityRequests :
          \E features \in build_features_for_prediction(playerLogs, teamLogs, req) :
             pred' = Some([pc |-> IF IsError(features) THEN "answered" ELSE "features",
                           req |-> req, features |-> features,
                           outcome |-> IF IsError(features) THEN Some(features) ELSE None,
                           inserted |-> FALSE])
    /\ UNCHANGED <<app, connects, web, cronReq, refresh, cacheVars, dbVars,
                   featVars, recVars, mcVars, rollVars, posVars, job, toolVars>>

\* another session commits a game day while the request is being handled
IdentityIngest ==
    /\ pred # None
    /\ pred' = IF Val(pred).pc = "features"
               THEN Some([Val(pred) EXCEPT !.inserted = TRUE]) ELSE pred
    /\ featReq = None
    /\ today <= MaxDay
    /\ \E slate \in {{LEBRON, BRONNY}, {BRONNY}} :
          playerLogs' = playerLogs \cup PlayerRowsOfDay(today, slate, nextId)
    /\ teamLogs' = teamLogs \cup TeamRowsOfDay(today, nextId + 2)
    /\ nextId' = nextId + 5
    /\ today' = today + 1
    /\ UNCHANGED <<app, connects, web, cronReq, refresh, cacheVars, featVars,
                   recVars, mcVars, rollVars, posVars, job, toolVars>>

\* lines 65-200: the second lookup, the check of the critical features, the
\* one-hot team column of the looked-up team, and the response
IdentityLookup ==
    /\ pred # None /\ Val(pred).pc = "features"
    /\ LET p == Val(pred)
       IN  \E info \in get_player_info(playerLogs, p.req.player_name, p.req.game_date) :
              pred' = Some([p EXCEPT
                 !.pc = "answered",
                 !.outcome =
                    Some(IF IsError(info) THEN info
                         ELSE IF critical_failure(p.features) # None
                         THEN CriticalError(Val(critical_failure(p.features)))
                         ELSE PredictionResponse(p.req, p.features, info, <<>>))])
    /\ UNCHANGED <<app, connects, web, cronReq, refresh, cacheVars, dbVars,
                   featVars, recVars, mcVars, rollVars, posVars, job, toolVars>>

InitIdentity ==
    /\ playerLogs = IdentityStore
    /\ teamLogs = PredictTeamStore
    /\ nextId = 5 * (GamesStored + 1)
    /\ today = GamesStored + 1
    /\ FeatIdle /\ RecIdle /\ McIdle /\ RollIdle /\ PosIdle /\ JobIdle
    /\ CacheIdle /\ AppIdle

NextIdentity ==
    \/ IdentityFeatures
    \/ IdentityIngest
    \/ IdentityLookup

SpecIdentity == InitIdentity /\ [][NextIdentity]_vars

(***************************************************************************)
(* Specifications                                                          *)
(***************************************************************************)
InitRec == recIn \in {Some(x) : x \in RecInputs} /\ recOut = NoneStr /\ McIdle /\ RollIdle /\ PosIdle
    /\ DbIdle /\ FeatIdle /\ JobIdle /\ CacheIdle /\ AppIdle
NextRec == Recommend
SpecRec == InitRec /\ [][NextRec]_vars

InitMC == mcLine \in 0..MaxLine /\ mcOut = None /\ RecIdle /\ RollIdle /\ PosIdle
    /\ DbIdle /\ FeatIdle /\ JobIdle /\ CacheIdle /\ AppIdle
NextMC == SimulateProp
SpecMC == InitMC /\ [][NextMC]_vars

InitRoll == RollIdle /\ RecIdle /\ McIdle /\ PosIdle
    /\ DbIdle /\ FeatIdle /\ JobIdle /\ CacheIdle /\ AppIdle
NextRoll ==
    \/ AppendPlayerRow
    \/ AppendTeamRow
    \/ BuildPlayerFeatures
    \/ BuildTeamDefenseRolling
SpecRoll == InitRoll /\ [][NextRoll]_vars

InitPos == PosIdle /\ RecIdle /\ McIdle /\ RollIdle
    /\ DbIdle /\ FeatIdle /\ JobIdle /\ CacheIdle /\ AppIdle
NextPos ==
    \/ AppendRawPlayerRow
    \/ BuildPosDefense
SpecPos == InitPos /\ [][NextPos]_vars

InitFeat ==
    /\ DbIdle /\ FeatIdle /\ RecIdle /\ McIdle /\ RollIdle /\ PosIdle
    /\ JobIdle /\ CacheIdle /\ AppIdle
NextFeat ==
    \/ StoreGameDay
    \/ BuildFeaturesCall
    \/ RollingStatsCall
    \/ PositionalDefenseCall
SpecFeat == InitFeat /\ [][NextFeat]_vars

\* the API process, with REDIS_URL and CRON_SECRET set or not, and a cache
\* that may hold entries of earlier runs
InitApp ==
    /\ DbIdle /\ FeatIdle /\ RecIdle /\ McIdle /\ RollIdle /\ PosIdle /\ JobIdle
    /\ \E secret \in {"", SECRET} :
          app = [state |-> "down", CRON_SECRET |-> secret, model_loaded |-> FALSE]
    /\ connects = 0
    /\ web = WebIdleRecord
    /\ cronReq = CronReqIdleRecord
    /\ refresh = RefreshIdleRecord
    /\ pred = None
    /\ ToolIdle
    /\ redis \in {{}, StaleEntries}
    /\ \E enabled \in BOOLEAN :
          cache_service = [enabled |-> enabled, redis_client |-> "none"]
    /\ cron = CronIdleRecord

NextApp ==
    \/ Startup
    \/ Shutdown
    \/ CacheCronRequest
    \/ FetchTonightsGamesBody
    \/ CronProvider
    \/ CronFetch
    \/ CronClear
    \/ CronSetGames
    \/ CronReturn
    \/ CronAnswer
    \/ FirstWebRequest
    \/ WebCacheRead
    \/ WebProvider
    \/ WebCacheWrite
SpecApp == InitApp /\ [][NextApp]_vars

\* the two GET handlers over the cache, and the passing of time
NextCache ==
    \/ Startup
    \/ Shutdown
    \/ WebRequest
    \/ WebCacheRead
    \/ WebProvider
    \/ WebCacheWrite
    \/ Tick
SpecCache == InitApp /\ [][NextCache]_vars
SpecDays == InitApp /\ [][NextDays]_vars

\* the three cron endpoints behind the secret guard
NextGuard ==
    \/ Startup
    \/ Shutdown
    \/ CronRequest
    \/ FetchTonightsGamesBody
    \/ CronProvider
    \/ CronFetch
    \/ CronClear
    \/ CronSetGames
    \/ CronReturn
    \/ IngestAndCleanupBody
    \/ FetchPlayerLogs
    \/ FetchTeamLogs
    \/ InsertPlayerLogs
    \/ InsertTeamLogs
    \/ CleanupOldData
    \/ FinishIngest
    \/ DailyOddsRefreshBody
    \/ RefreshGetGames
    \/ RefreshLiveFetch
    \/ RefreshProvider
    \/ RefreshGame
    \/ RefreshClose
    \/ CronAnswer
SpecGuard == InitApp /\ [][NextGuard]_vars

C6_ProbabilityCompleteness ==
    mcOut # None =>
        LET out == Val(mcOut)
        IN  /\ out.probability_over + out.probability_under = out.n
            /\ out.probability_over \in 0..out.n
            /\ out.probability_under \in 0..out.n

\* a draw with a sample exactly on the line, one above and one below
C6_Witness ==
    /\ mcOut # None
    /\ \E i, j, k \in DOMAIN Val(mcOut).simulations :
          /\ Val(mcOut).simulations[i] = Val(mcOut).prop_line
          /\ Val(mcOut).simulations[j] > Val(mcOut).prop_line
          /\ Val(mcOut).simulations[k] < Val(mcOut).prop_line

(***************************************************************************)
(* C2: in both offline builders, for every group and every row of that     *)
(* group in date order, a window-N rolling feature is absent when the row  *)
(* has fewer than N earlier rows in its own group, and otherwise is the    *)
(* aggregate of exactly the N immediately preceding rows of the same       *)
(* group; never the row itself, a later row or a row of another group.     *)
(***************************************************************************)
\* the rows of the same group dated before row r, straight from the file
EarlierInGroup(raw, r) ==
    {j \in DOMAIN raw : raw[j].grp = r.grp /\ raw[j].date < r.date}

\* the N latest of them
PrecedingN(raw, r, N) ==
    {j \in EarlierInGroup(raw, r) :
        Cardinality({k \in EarlierInGroup(raw, r) : raw[k].date > raw[j].date}) < N}

ExpectedRolling(raw, r, N) ==
    IF Cardinality(EarlierInGroup(raw, r)) < N THEN None
    ELSE LET vals == [j \in DOMAIN raw |-> Some(raw[j].val)]
         IN  Some([n |-> N, sum |-> SumOver(vals, PrecedingN(raw, r, N)),
                   sumsq |-> SumSqOver(vals, PrecedingN(raw, r, N))])

C2_ShiftedRolling ==
    featOut # None =>
        LET out == Val(featOut)
        IN  /\ Len(out.rows) = Len(out.raw)
            /\ \A i \in DOMAIN out.rows :
                  LET r == out.rows[i]
                  IN  /\ \E j \in DOMAIN out.raw :
                            /\ out.raw[j].grp = r.grp
                            /\ out.raw[j].date = r.date
                            /\ out.raw[j].val = r.val
                      /\ r.L5 = ExpectedRolling(out.raw, r, 5)
                      /\ r.L10 = ExpectedRolling(out.raw, r, 10)
                      /\ out.table = "player" =>
                            r.L3 = ExpectedRolling(out.raw, r, 3)

\* a second group's row with 5 earlier games of its own directly follows the
\* first group's rows in the sorted frame and has its L5
C2_Witness ==
    /\ featOut # None
    /\ Val(featOut).rows[1].grp = 1
    /\ \E i \in DOMAIN Val(featOut).rows :
          /\ Val(featOut).rows[i].grp = 2
          /\ Val(featOut).rows[i].L5 # None
          /\ Cardinality(EarlierInGroup(Val(featOut).raw, Val(featOut).rows[i])) = 5

(***************************************************************************)
(* C3: the DEF_PTS_VS_POS_L5/L10 value of an (opponent, position) group at *)
(* game date d is computed only from that group's own per-date point       *)
(* totals on dates strictly before d (at most the 5/10 most recent) and    *)
(* has no value on the group's first date; it never uses a total of        *)
(* another opponent or position, nor of a date on or after d.              *)
(***************************************************************************)
\* the raw rows behind the group's totals on dates before r.date
OwnEarlierRows(raw, r) ==
    {j \in DOMAIN raw :
        raw[j].opp = r.opp /\ raw[j].pos = r.pos /\ raw[j].date < r.date}

OwnEarlierDates(raw, r) == {raw[j].date : j \in OwnEarlierRows(raw, r)}

\* the at most N most recent of these dates
RecentDates(raw, r, N) ==
    {d \in OwnEarlierDates(raw, r) :
        Cardinality({e \in OwnEarlierDates(raw, r) : e > d}) < N}

ExpectedPosMean(raw, r, N) ==
    IF OwnEarlierDates(raw, r) = {} THEN None
    ELSE LET vals == [j \in DOMAIN raw |-> Some(raw[j].pts)]
             rows == {j \in OwnEarlierRows(raw, r) :
                         raw[j].date \in RecentDates(raw, r, N)}
         IN  Some([n |-> Cardinality(RecentDates(raw, r, N)),
                   sum |-> SumOver(vals, rows)])

MeanOf(agg) ==
    IF agg = None THEN None
    ELSE Some([n |-> Val(agg).n, sum |-> Val(agg).sum])

C3_PosDefensePerGroup ==
    posOut # None =>
        \A i \in DOMAIN Val(posOut).rows :
            LET r == Val(posOut).rows[i]
            IN  /\ MeanOf(r.DEF_PTS_VS_POS_L5) =
                      ExpectedPosMean(Val(posOut).raw, r, 5)
                /\ MeanOf(r.DEF_PTS_VS_POS_L10) =
                      ExpectedPosMean(Val(posOut).raw, r, 10)

(***************************************************************************)
(* C1: build_features_for_prediction reads only rows whose game_date is    *)
(* strictly before the prediction date D: the store and the store cut down *)
(* to its rows dated before D yield the same feature map (or the same      *)
(* error), whatever rows dated on or after D exist.                        *)
(***************************************************************************)
C1_NoLookahead ==
    (featReq # None /\ Val(featReq).op = "build_features") =>
        LET req == Val(featReq)
            past == build_features_for_prediction(
                       {r \in playerLogs : r.game_date < req.game_date},
                       {r \in teamLogs : r.game_date < req.game_date}, req)
        IN  /\ Val(featResult) \in past
            /\ build_features_for_prediction(playerLogs, teamLogs, req) = past

\* a feature map was built although the player, the player's position
\* and both teams have rows dated on or after D
C1_Witness ==
    /\ featReq # None
    /\ Val(featReq).op = "build_features"
    /\ ~IsError(Val(featResult))
    /\ \E r \in playerLogs :
          /\ r.player = Val(featResult).player
          /\ r.game_date >= Val(featReq).game_date
    /\ \E r \in teamLogs :
          r.team = Val(featReq).opponent /\ r.game_date >= Val(featReq).game_date

(***************************************************************************)
(* C4: get_player_rolling_stats fails with an insufficient-data error      *)
(* whenever fewer than N games of the player are dated strictly before D;  *)
(* it never returns an average over a partial window or default values.    *)
(***************************************************************************)
C4_InsufficientData ==
    (featReq # None /\ Val(featReq).op = "rolling_stats") =>
        LET req == Val(featReq)
            prior == {r \in playerLogs : r.player = req.player_name
                                         /\ r.game_date < req.game_date}
        IN  /\ Cardinality(prior) < req.lookback_days =>
                  Val(featResult) = [error |-> "insufficient data"]
            /\ ~IsError(Val(featResult)) =>
                  Val(featResult).PTS.n = req.lookback_days

\* an L10 request for a player with 7 prior games fails
C4_Witness ==
    /\ featReq # None
    /\ Val(featReq).op = "rolling_stats"
    /\ Val(featReq).lookback_days = 10
    /\ Cardinality({r \in playerLogs : r.player = Val(featReq).player_name
                       /\ r.game_date < Val(featReq).game_date}) = 7
    /\ IsError(Val(featResult))

(***************************************************************************)
(* C7: after the cleanup step has run successfully with now = day D,       *)
(* neither table holds a row with game_date earlier than D-60, whatever    *)
(* was present or ingested earlier in the run; rows dated D-60 or later    *)
(* are left in place.                                                      *)
(***************************************************************************)
CleanupSucceeded ==
    job.pc = "cleanup" /\ job'.pc = "summary" /\ "cleanup" \notin job'.failed

C7_Retention ==
    [][CleanupSucceeded =>
         /\ \A r \in playerLogs' \cup teamLogs' : r.game_date >= job.now - 60
         /\ \A r \in playerLogs : r.game_date >= job.now - 60 => r \in playerLogs'
         /\ \A r \in teamLogs : r.game_date >= job.now - 60 => r \in teamLogs'
    ]_vars

\* a successful sweep removed rows and kept a row dated exactly D-60 and a
\* row ingested in the same run
C7_Witness ==
    /\ job.pc = "summary"
    /\ "cleanup" \notin job.failed
    /\ job.deleted_count > 0
    /\ job.player_count > 0
    /\ \E r \in playerLogs : r.game_date = job.now - 60
    /\ \E r \in playerLogs : r.game_date = job.now - 1

(***************************************************************************)
(* C8: the job always attempts the cleanup step, and it raises at the end  *)
(* whenever any step failed (the stats-feed fetch of player or team logs,  *)
(* the database insert, or the cleanup) and only then.                     *)
(***************************************************************************)
C8_ErrorAccumulation ==
    (job.pc = "idle" /\ job.runs > 0) => (job.raised <=> job.failed # {})

(***************************************************************************)
(* C10: after any sequence of ingest-and-cleanup runs, player_game_logs    *)
(* holds at most one row per (player, game_date).                          *)
(***************************************************************************)
C10_UniquePlayerGame ==
    \A r1, r2 \in playerLogs :
        (r1.player = r2.player /\ r1.game_date = r2.game_date) => r1 = r2

(***************************************************************************)
(* C9: in fetch_tonights_games the provider fetch completes before any     *)
(* cache key is deleted; if the fetch fails, no cache key is deleted or    *)
(* written and the job raises; if it succeeds, today's keys are cleared    *)
(* and afterwards the fetched list is written under today's games key      *)
(* with a 24-hour TTL.                                                     *)
(***************************************************************************)
TodaysEntries(store) == {e \in store : e.key[Len(e.key)] = ToString(today)}

C9_FetchBeforeClear ==
    /\ (cron.runs > 0 /\ cron.fetched # "ok") => redis = cron.redis0
    /\ (cron.pc = "done" /\ cron.fetched = "failed") => cron.raised
    /\ (cron.pc = "done" /\ cron.fetched = "ok") =>
          TodaysEntries(redis) =
             {[key |-> <<"nba", "games", ToString(today)>>,
               value |-> [json |-> cron.games], ttl |-> 86400]}

\* the part of C9 that does not depend on the backend accepting the
\* operations: nothing changes before a successful fetch, a failed fetch
\* raises, and what the run changes is today's keys only, the clear first
C9_OrderingPart ==
    /\ (cron.runs > 0 /\ cron.fetched # "ok") =>
          (redis = cron.redis0 /\ cron.log = <<>>)
    /\ (cron.pc = "done" /\ cron.fetched = "failed") => cron.raised
    /\ cron.log \in {<<>>, <<"clear">>, <<"set">>, <<"clear", "set">>}
    /\ cron.runs > 0 =>
          redis \ TodaysEntries(redis) = cron.redis0 \ TodaysEntries(cron.redis0)
    /\ (cron.pc = "done" /\ cron.log = <<"clear", "set">>) =>
          TodaysEntries(redis) =
             {[key |-> <<"nba", "games", ToString(today)>>,
               value |-> [json |-> cron.games], ttl |-> 86400]}

(***************************************************************************)
(* C11: the process-wide cache client is connected at application startup  *)
(* and closed only at application shutdown; handling a request, the cron   *)
(* endpoints included, never reconnects or closes it, so a request in      *)
(* flight never finds the shared client closed or replaced.                *)
(***************************************************************************)
C11_SharedClientLifecycle ==
    /\ app.state = "up" =>
          (cache_service.redis_client # "closed" /\ connects <= 1)
    /\ web.pc # "idle" =>
          \A seen \in web.client_seen :
              seen = <<web.client0, web.connects0>> /\ seen[1] # "closed"

(***************************************************************************)
(* C12: the body of a cron endpoint runs only when CRON_SECRET is          *)
(* configured and the X-Cron-Secret header equals it; with no secret       *)
(* configured every request gets 500 whatever its header, and with a       *)
(* secret configured a missing or different header gets 403.               *)
(***************************************************************************)
BodyRan ==
    \/ cronReq.pc = "body"
    \/ cronReq.pc = "answered" /\ RunsOf(cronReq.endpoint) > cronReq.runs0

C12_CronSecretGuard ==
    cronReq.pc # "idle" =>
       /\ BodyRan => (app.CRON_SECRET # "" /\ cronReq.header = app.CRON_SECRET)
       /\ app.CRON_SECRET = "" => cronReq.status = 500
       /\ (app.CRON_SECRET # "" /\ cronReq.header # app.CRON_SECRET) =>
             cronReq.status = 403

\* a request with the right secret ran the ingest job and was answered 200
C12_Witness ==
    /\ cronReq.pc = "answered" /\ cronReq.status = 200
    /\ cronReq.endpoint = "ingest-and-cleanup"
    /\ cronReq.header = SECRET /\ app.CRON_SECRET = SECRET
    /\ job.runs > cronReq.runs0

(***************************************************************************)
(* C13: /predict answers 503 exactly when no model is in the model store;  *)
(* otherwise a prediction that fails because the input cannot be resolved  *)
(* (unknown player, insufficient games, missing or zero critical feature)  *)
(* answers 404 with the generic player-not-found message, and any other    *)
(* failure answers 500 with a generic message without exception detail.    *)
(***************************************************************************)
Unresolved == {"player not found", "insufficient data", "critical feature"}

C13_PredictStatusMapping ==
    pred # None =>
       LET p == Val(pred)
           r == p.response
       IN  /\ r.status = 503 <=> ~p.model_loaded
           /\ p.model_loaded =>
                LET out == Val(p.outcome)
                IN  /\ ("error" \in DOMAIN out /\ out.error \in Unresolved) =>
                          (r.status = 404 /\ r.detail = NOT_FOUND_DETAIL)
                    /\ ("error" \in DOMAIN out /\ out.error \notin Unresolved) =>
                          (r.status = 500 /\ r.detail = FAILED_DETAIL
                             /\ r.detail # out.error)
                    /\ "error" \notin DOMAIN out =>
                          (r.status = 200 /\ r.body = Some(out))

\* with the model loaded, a scoreless rookie's request was answered 404
\* for a zero critical feature
C13_Witness ==
    /\ pred # None
    /\ Val(pred).model_loaded
    /\ Val(pred).req.player_name = ROOKIE
    /\ Val(pred).outcome = Some(CriticalError("PTS_L5"))
    /\ Val(pred).response.status = 404

(***************************************************************************)
(* C14: a successful prediction carries no monte_carlo analysis exactly    *)
(* when the request supplied no prop line; when a prop line was supplied   *)
(* (0.0 included) the analysis is present, its probability_over and        *)
(* probability_under lie in [0, 1] and sum to 1, its confidence lies in    *)
(* [0, 100] and its recommendation is OVER, UNDER or PASS.                 *)
(***************************************************************************)
C14_MonteCarloPresence ==
    (pred # None /\ Val(pred).response.status = 200) =>
       LET req == Val(pred).req
           mc == Val(Val(pred).response.body).monte_carlo
       IN  /\ mc = None <=> req.prop_line = None
           /\ mc # None =>
                LET a == Val(mc)
                IN  /\ a.probability_over \in 0..a.n
                    /\ a.probability_under \in 0..a.n
                    /\ a.probability_over + a.probability_under = a.n
                    /\ a.confidence_score \in 0..100
                    /\ a.recommendation \in {"OVER", "UNDER", "PASS"}

\* a successful prediction for a prop line of 0.0 carries the analysis
C14_Witness ==
    /\ pred # None
    /\ Val(pred).response.status = 200
    /\ Val(pred).req.prop_line = Some(0)
    /\ Val(Val(pred).response.body).monte_carlo # None

(***************************************************************************)
(* C15: for GET /nba/games and GET /nba/games/{event_id}/players the odds  *)
(* provider is called only when the cache read returned no payload; on a   *)
(* hit the response is the cached payload alone, and on a miss the         *)
(* provider's result is returned and written to the cache, with a TTL of   *)
(* 24 hours for games and of 10 hours for players.                         *)
(***************************************************************************)
WebKey == IF web.route = "games" THEN get_games_key ELSE get_players_key(web.event_id)
WebTtl == IF web.route = "games" THEN 24 * 3600 ELSE 10 * 3600

C15_WitnessHit ==
    /\ web.pc = "answered" /\ web.route = "games"
    /\ web.cached # None /\ web.provider_calls = 0

(***************************************************************************)
(* C16: get_games, set_games, get_players, set_players and clear_today     *)
(* turn a backend I/O error into not-cached, False or 0 and never raise,   *)
(* so GET /nba/games and GET /nba/games/{event_id}/players still return    *)
(* the provider's data when the cache read or the cache write failed.      *)
(***************************************************************************)
ReadOutcomes ==
    get_games(cache_service, redis) \cup get_players(cache_service, redis, "e1")

WriteOutcomes ==
    UNION {try_set_games(cache_service, redis, games, 24) : games \in GameLists}
      \cup UNION {set_players(cache_service, redis, "e1", players, 10)
                  : players \in PlayerLists}

C16_CacheErrorsSwallowed ==
    /\ \A out \in ReadOutcomes :
          out.error => out.result = None
    /\ \A out \in WriteOutcomes :
          /\ out.result \in BOOLEAN
          /\ out.error => (out.result = FALSE /\ out.store = redis)
    /\ \A out \in try_clear_today(cache_service, redis) :
          /\ out.result \in Nat
          /\ out.error => (out.result = 0 /\ out.store = redis)
    /\ (web.pc = "answered" /\ web.fetched # None) =>
          (web.status = 200 /\ web.body = web.fetched)
    /\ (web.pc # "idle" /\ web.pc # "read" /\ "read" \in web.errors) =>
          web.provider_calls = 1 \/ web.pc = "provider"
    /\ (web.pc = "answered" /\ web.status = 500) =>
          (web.provider_calls = 1 /\ web.fetched = None)

\* a games request whose cache read and cache write both failed was answered
\* with the provider's list
C16_Witness ==
    /\ web.pc = "answered" /\ web.route = "games"
    /\ web.errors = {"read", "write"}
    /\ web.status = 200 /\ web.body = Some(<<"e1", "e2">>)

(***************************************************************************)
(* C17: when no cache connection string is configured, or the connect or   *)
(* liveness check of startup failed, every get returns not-cached, every   *)
(* set returns failure, clear_today returns 0, none of them attempts       *)
(* backend I/O, and startup itself does not fail.                          *)
(***************************************************************************)
C17_DisabledMode ==
    /\ ~cache_service.enabled =>
          /\ \A out \in ReadOutcomes : out.result = None /\ ~out.io
          /\ \A out \in WriteOutcomes :
                out.result = FALSE /\ ~out.io /\ out.store = redis
          /\ \A out \in try_clear_today(cache_service, redis) :
                out.result = 0 /\ ~out.io /\ out.store = redis
    /\ (web.pc = "answered" /\ ~cache_service.enabled) =>
          (web.io = 0 /\ web.cached = None /\ web.wrote \in {None, Some(FALSE)})
    /\ app.state = "down" => ENABLED Startup

\* the application is up although the liveness check of startup failed
\* with the client already made, and a request was served from the provider
C17_Witness ==
    /\ app.state = "up"
    /\ ~cache_service.enabled /\ cache_service.redis_client = "open"
    /\ web.pc = "answered" /\ web.status = 200 /\ web.wrote = Some(FALSE)

(***************************************************************************)
(* C18: with the cache enabled, set_games(list) followed immediately by    *)
(* get_games returns a list equal to the one stored, the empty list        *)
(* included; once the TTL given to set_games has elapsed, get_games        *)
(* returns not-cached.                                                     *)
(***************************************************************************)
AfterSetGames ==
    /\ web.pc \notin {"idle", "read"}
    /\ web.route = "games"
    /\ web.prev # None
    /\ Val(web.prev).route = "games"
    /\ Val(web.prev).wrote = Some(TRUE)
    /\ "read" \notin web.errors

C18_RoundTripAndExpiry ==
    AfterSetGames =>
       /\ Val(web.age_at_read) = 0 => web.cached = Val(web.prev).fetched
       /\ Val(web.age_at_read) >= 24 * 3600 => web.cached = None

\* the empty list stored by one request was read back by the next
C18_Witness ==
    /\ AfterSetGames
    /\ Val(web.age_at_read) = 0
    /\ Val(web.prev).fetched = Some(<<>>)
    /\ web.cached = Some(<<>>)

\* a list stored by one request was gone for the next, 24 hours later
C18_WitnessExpired ==
    /\ AfterSetGames
    /\ Val(web.age_at_read) = 24 * 3600
    /\ web.cached = None

(***************************************************************************)
(* C19: refresh_cache takes the cached game list, or a live fetch when the *)
(* cache holds none; it attempts every game of that list exactly once, in  *)
(* order; it writes each successfully fetched game's players under that    *)
(* event's key with a 24-hour TTL; and a failure while fetching or caching *)
(* one game neither stops the games after it nor makes the run raise.      *)
(***************************************************************************)
RefreshRan == refresh.runs > 0 /\ refresh.pc # "idle"

C19_RefreshIsolation ==
    RefreshRan =>
       /\ refresh.source = "cache" =>
             (refresh.read = Some(refresh.games) /\ refresh.games # <<>>)
       /\ refresh.source = "live" => refresh.read \in {None, Some(<<>>)}
       /\ Len(refresh.results) <= Len(refresh.games)
       /\ \A k \in DOMAIN refresh.results :
             LET r == refresh.results[k]
             IN  /\ r.event_id = refresh.games[k]
                 /\ (r.fetched /\ r.cached) =>
                       [key |-> get_players_key(r.event_id), ttl |-> 24 * 3600,
                        value |-> json_dumps(r.players)] \in redis
       /\ refresh.results # <<>> => ~refresh.raised
       /\ (refresh.pc = "done" /\ ~refresh.raised /\ refresh.source # "none") =>
             (Len(refresh.results) = Len(refresh.games) /\ refresh.closed)

\* the fetch of the first of two cached games failed, the second game's
\* players were fetched and cached, and the run returned
C19_Witness ==
    /\ refresh.runs > 0 /\ refresh.pc = "done" /\ ~refresh.raised
    /\ refresh.source = "cache" /\ refresh.games = <<"e1", "e2">>
    /\ Len(refresh.results) = 2
    /\ ~refresh.results[1].fetched
    /\ refresh.results[2].fetched /\ refresh.results[2].cached

(***************************************************************************)
(* C20: for a Guard, Forward or Center position,                           *)
(* get_positional_defense_stats returns the 55.0 default whenever fewer    *)
(* than 5 distinct qualifying game dates exist (games of that position     *)
(* against the opponent strictly before the prediction date), and          *)
(* otherwise the mean of the per-date point totals of the N most recent    *)
(* such dates.                                                             *)
(***************************************************************************)
QualifyingRows(req) ==
    {r \in playerLogs : /\ r.position = req.player_name
                        /\ req.opponent \in r.matchup
                        /\ r.game_date < req.game_date}

C20_PositionalFallback ==
    (featReq # None /\ Val(featReq).op = "positional_defense"
       /\ Val(featReq).player_name \in {"Guard", "Forward", "Center"}) =>
        LET req == Val(featReq)
            dates == {r.game_date : r \in QualifyingRows(req)}
            recent == {d \in dates :
                         Cardinality({e \in dates : e > d}) < req.lookback_days}
        IN  Val(featResult) =
               IF Cardinality(dates) < 5 THEN Const(55)
               ELSE [sum |-> SumField({r \in QualifyingRows(req) :
                                         r.game_date \in recent}, "points"),
                     n |-> Cardinality(recent)]

\* the part of C20 the code keeps: the default below 5 qualifying rows, the
\* mean over the most recent dates from 5 qualifying dates on
C20_RowsPart ==
    (featReq # None /\ Val(featReq).op = "positional_defense"
       /\ Val(featReq).player_name \in {"Guard", "Forward", "Center"}) =>
        LET req == Val(featReq)
            dates == {r.game_date : r \in QualifyingRows(req)}
        IN  /\ Cardinality(QualifyingRows(req)) < 5 => Val(featResult) = Const(55)
            /\ Cardinality(dates) >= 5 =>
                  Val(featResult).n = IF Cardinality(dates) < req.lookback_days
                                      THEN Cardinality(dates)
                                      ELSE req.lookback_days

(***************************************************************************)
(* C21: after any run of the migration that reports success each table     *)
(* holds exactly the CSV rows within the trailing 60 days, once each,      *)
(* whatever the tables held before and also when the drop step failed; so  *)
(* a second run with the same files and the same now leaves the tables as  *)
(* the first did.                                                          *)
(***************************************************************************)
MigratedExactly ==
    LET players == CsvKept(CsvPlayerLogs, migration.now, migration.time_of_day)
        teams == CsvKept(CsvTeamLogs, migration.now, migration.time_of_day)
    IN  /\ Content(playerLogs) = players
        /\ Cardinality(playerLogs) = Cardinality(players)
        /\ Content(teamLogs) = teams
        /\ Cardinality(teamLogs) = Cardinality(teams)

C21_MigrationIdempotence ==
    migration.pc = "done" => MigratedExactly

\* the part of C21 the code keeps: a successful run whose drop step
\* succeeded leaves exactly the CSV rows the filter keeps
C21_DroppedPart ==
    (migration.pc = "done" /\ migration.dropped) => MigratedExactly

(***************************************************************************)
(* C22: _player_id depends only on the normalized name (trimmed,           *)
(* lower-cased, every run of whitespace collapsed to one space): two names *)
(* with the same normalized form get the same 12-character identifier, and *)
(* normalizing an already normalized name changes nothing.                 *)
(***************************************************************************)
\* the normalized form as the claim words it: runs collapsed, then trimmed
\* of the one space left at either end, then lower-cased
RECURSIVE Collapsed(_)
Collapsed(name) ==
    IF Len(name) < 2 THEN [i \in DOMAIN name |-> IF IsSpace(name[i]) THEN " " ELSE name[i]]
    ELSE IF IsSpace(name[1]) /\ IsSpace(name[2]) THEN Collapsed(Tail(name))
    ELSE <<IF IsSpace(name[1]) THEN " " ELSE name[1]>> \o Collapsed(Tail(name))

Trimmed(name) ==
    LET from == IF name # <<>> /\ name[1] = " " THEN 2 ELSE 1
        to == IF Len(name) >= from /\ name[Len(name)] = " "
              THEN Len(name) - 1 ELSE Len(name)
    IN  SubSeq(name, from, to)

Normalized(name) == lower(Trimmed(Collapsed(name)))

C22_DeterministicPlayerId ==
    idCall # None =>
       LET call == Val(idCall)
       IN  /\ Len(call.id) = ID_LENGTH
           /\ \A other \in Names :
                 Normalized(other) = Normalized(call.name) =>
                    player_id(other) = call.id
           /\ player_id(Normalized(call.name)) = call.id
           /\ Normalized(Normalized(call.name)) = Normalized(call.name)

\* "L<tab><space>l" got the identifier of "l l"
C22_Witness ==
    /\ idCall # None
    /\ Val(idCall).name = <<"L", "\t", " ", "l">>
    /\ Val(idCall).id = player_id(<<"l", " ", "l">>)
    /\ Val(idCall).id # player_id(<<"l", "l">>)

(***************************************************************************)
(* C23: whenever POST /nba/cron/fetch-tonights-games answers with status   *)
(* success, today's games key in the cache holds the game list fetched     *)
(* during that run, also when the cache is disabled or unreachable and     *)
(* when the cache write fails after the clear.                             *)
(***************************************************************************)
FetchTonightsSucceeded ==
    /\ cronReq.pc = "answered"
    /\ cronReq.status = 200
    /\ cronReq.endpoint = "fetch-tonights-games"

C23_CronSuccessMeansCached ==
    FetchTonightsSucceeded =>
       [key |-> get_games_key, value |-> json_dumps(cron.games), ttl |-> 86400]
          \in redis

\* the part the code keeps: a run whose setex took effect left the list
\* under today's games key
C23_WrittenPart ==
    (FetchTonightsSucceeded /\ cron.log # <<>> /\ cron.log[Len(cron.log)] = "set") =>
       [key |-> get_games_key, value |-> json_dumps(cron.games), ttl |-> 86400]
          \in redis

(***************************************************************************)
(* C24: _get_recommendation returns OVER or UNDER only when both minimums  *)
(* are met, edge >= 3.0 and confidence >= 55; whenever edge < 3.0 or       *)
(* confidence < 55 it returns PASS.                                        *)
(***************************************************************************)
C24_ConservativeRecommendation ==
    recOut # NoneStr =>
        LET a == Val(recIn)
        IN  /\ recOut \in {"OVER", "UNDER"} =>
                  (a.edge >= MIN_EDGE_TENTHS /\ a.confidence >= MIN_CONFIDENCE)
            /\ (a.edge < MIN_EDGE_TENTHS \/ a.confidence < MIN_CONFIDENCE) =>
                  recOut = "PASS"

\* the part the code keeps: with both minimums met a side is named, and
\* with both missed the answer is PASS
C24_BothPart ==
    recOut # NoneStr =>
        LET a == Val(recIn)
        IN  /\ (a.edge >= MIN_EDGE_TENTHS /\ a.confidence >= MIN_CONFIDENCE) =>
                  recOut \in {"OVER", "UNDER"}
            /\ (a.edge < MIN_EDGE_TENTHS /\ a.confidence < MIN_CONFIDENCE) =>
                  recOut = "PASS"

(***************************************************************************)
(* C30: whenever a prediction recommends OVER (resp. UNDER), the reported  *)
(* edge is the expected value of the over (resp. under) bet at the         *)
(* supplied odds: the side chosen by comparing probabilities is the side   *)
(* whose edge is reported as max(edge_over, edge_under).                   *)
(***************************************************************************)
Analysis == Val(Val(Val(pred).response.body).monte_carlo)
Analysed ==
    /\ pred # None
    /\ Val(pred).response.status = 200
    /\ Val(Val(pred).response.body).monte_carlo # None

EdgeOver == calculate_edge(Analysis.probability_over, Analysis.n, Val(pred).req.over_odds)
EdgeUnder == calculate_edge(Analysis.probability_under, Analysis.n, Val(pred).req.under_odds)

C30_EdgeMatchesSide ==
    Analysed =>
       /\ Analysis.recommendation = "OVER" => Analysis.edge = EdgeOver
       /\ Analysis.recommendation = "UNDER" => Analysis.edge = EdgeUnder

\* the part the code keeps: the reported edge is the larger of the two, and
\* the side named is the more probable one (UNDER on a tie)
C30_MaxPart ==
    Analysed =>
       /\ Analysis.edge = Max2(EdgeOver, EdgeUnder)
       /\ Analysis.recommendation = "OVER" =>
             Analysis.probability_over > Analysis.probability_under
       /\ Analysis.recommendation = "UNDER" =>
             Analysis.probability_over <= Analysis.probability_under

(***************************************************************************)
(* C25: in PredictionService.predict the trained model is never invoked    *)
(* when any of PTS_L5, PTS_L10, MIN_L5, DEF_PTS_ALLOWED_L5, REST_DAYS is    *)
(* missing from the feature map or equals zero; the request fails instead  *)
(* with an error naming the first such feature in that order.              *)
(***************************************************************************)
FailingPositions(features) ==
    {i \in 1..5 :
        LET feat == <<"PTS_L5", "PTS_L10", "MIN_L5", "DEF_PTS_ALLOWED_L5", "REST_DAYS">>[i]
        IN  \/ feat \notin DOMAIN features
            \/ (i = 5 /\ features[feat] = 0)
            \/ (i < 5 /\ features[feat].sum = 0)}

C25_ValidationBeforeInference ==
    (pred # None /\ Val(pred).features # None) =>
       LET p == Val(pred)
           failing == FailingPositions(Val(p.features))
       IN  /\ failing # {} =>
                /\ p.model_calls = 0
                /\ IsValueError(Val(p.outcome))
                /\ Val(p.outcome).feature =
                      CRITICAL_FEATURES[CHOOSE i \in failing : \A j \in failing : i <= j]
           /\ p.model_calls = 1 => (failing = {} /\ ~IsError(Val(p.outcome)))

\* the scoreless rookie: PTS_L5 and PTS_L10 are both zero, the error names
\* PTS_L5 and the model was not invoked
C25_Witness ==
    /\ pred # None
    /\ Val(pred).features # None
    /\ {2} \subseteq FailingPositions(Val(Val(pred).features))
    /\ Val(pred).outcome = Some(CriticalError("PTS_L5"))
    /\ Val(pred).model_calls = 0

(***************************************************************************)
(* C26: for each player missing a position the job makes at most 3 lookup  *)
(* attempts and stops at the first that succeeds; when the player's loop   *)
(* ends the position map has an entry for that player (Guard, Forward,     *)
(* Center, or 'Unknown' when unresolved); the map is written to disk after *)
(* every 50th processed player and once at the end, so a crash after k     *)
(* processed players loses the entries of fewer than 50 players.           *)
(***************************************************************************)
\* the processed players whose entries a restart would not find on disk
LostPlayers ==
    {player \in 1..backfill.processed :
        ~(backfill.disk.complete /\ player \in DOMAIN backfill.disk.content)}

RetryAndEntry ==
    /\ backfill.calls \in 0..3
    /\ backfill.pc = "attempt" => ~backfill.ok
    /\ backfill.pc = "pace" =>
          /\ backfill.idx \in DOMAIN backfill.player_positions
          /\ backfill.player_positions[backfill.idx]
                \in {"Guard", "Forward", "Center", "Unknown"}
          /\ ~backfill.ok =>
                (backfill.calls = 3 /\ backfill.player_positions[backfill.idx] = "Unknown")
    /\ (backfill.pc = "attempt" /\ backfill.idx % 50 = 1 /\ backfill.idx > 1) =>
          (backfill.disk.complete /\ 1..(backfill.idx - 1) \subseteq DOMAIN backfill.disk.content)
    /\ backfill.pc = "done" =>
          backfill.disk = [content |-> backfill.player_positions, complete |-> TRUE]

C26_BackfillRetryCheckpoint ==
    backfill.pc # "idle" =>
       /\ RetryAndEntry
       /\ backfill.pc = "crashed" => Cardinality(LostPlayers) < 50

\* the part the code keeps: the retry loop and the entry, the saves, and
\* the loss bound for a crash that does not fall between the open and the
\* end of the dump
C26_BetweenWritesPart ==
    backfill.pc # "idle" =>
       /\ RetryAndEntry
       /\ (backfill.pc = "crashed" /\ backfill.disk.complete) =>
             Cardinality(LostPlayers) < 50

(***************************************************************************)
(* C27: a get_games or get_players call made on Eastern date d returns     *)
(* only a payload that was written by a set on the same date d, even when  *)
(* the payload's TTL has not yet elapsed; and clear_today on date d        *)
(* deletes only keys ending in date d, leaving keys of other dates         *)
(* unchanged.                                                              *)
(***************************************************************************)
DateOf(key) == key[Len(key)]

\* the entries a step stored: a key or a payload the store did not hold
Stored == {e \in redis' : ~\E o \in redis : o.key = e.key /\ o.value = e.value}

\* a step of a handler or of the job: every entry it stores is keyed with
\* the date of the step, a payload it returns from the cache lies under a
\* key of that date, and it leaves the keys of other dates as they are
DayStep ==
    /\ \A e \in Stored : DateOf(e.key) = ToString(today)
    /\ (web.pc = "read" /\ web'.pc # "read" /\ web'.cached # None) =>
          \E e \in redis : /\ DateOf(e.key) = ToString(today)
                           /\ json_loads(e.value) = Val(web'.cached)
    /\ {e \in redis : DateOf(e.key) # ToString(today)} \subseteq redis'

DisabledStep ==
    ~cache_service.enabled =>
       /\ ~cache_service'.enabled
       /\ connects' = connects
       /\ redis' = redis
       /\ web.pc \in {"read", "write"} => web'.io = web.io

C28_DisablementIsPermanent == [][DisabledStep]_vars

\* the ping at startup failed; afterwards a cron run's connect() returned
\* without a second contact and the run ended before fetching, and a GET
\* read nothing although the backend holds today's list
C28_Witness ==
    /\ app.state = "up"
    /\ cache_service = [enabled |-> FALSE, redis_client |-> "open"]
    /\ connects = 1
    /\ cron.runs = 1 /\ cron.pc = "done" /\ cron.fetched = "no"
    /\ web.pc = "provider" /\ web.route = "games" /\ web.io = 0
    /\ \E e \in redis : e.key = get_games_key

(***************************************************************************)
(* C29: in a single /predict request the player whose games feed the       *)
(* rolling features is the same player (canonical name, team, position)    *)
(* that is reported in the response and used to set the one-hot team       *)
(* column, also when rows are inserted into player_game_logs by a          *)
(* concurrent ingestion between the request's two identity lookups.        *)
(***************************************************************************)
Responded ==
    /\ pred # None
    /\ Val(pred).pc = "answered"
    /\ ~IsError(Val(Val(pred).outcome))

C29_IdentityConsistency ==
    Responded =>
       LET features == Val(pred).features
           response == Val(Val(pred).outcome)
       IN  /\ response.player_name = features.player
           /\ response.team = features.team
           /\ response.position = features.position

\* the part the code keeps: when no row was committed between the two
\* lookups and the name matches one player only, the two lookups agree
C29_QuietPart ==
    (Responded /\ ~Val(pred).inserted) =>
       LET features == Val(pred).features
           response == Val(Val(pred).outcome)
       IN  /\ response.player_name = features.player
           /\ response.team = features.team
           /\ response.position = features.position

=============================================================================
